---- MODULE Spec2Model ----
(***************************************************************************)
(* Verification model of liveagent-mechanigo: the LiveAgent -> BigQuery    *)
(* synchronisation engine and the conversation enrichment pipeline.        *)
(*                                                                         *)
(* The module holds several state machines over disjoint variable groups:  *)
(*   merge*   the stage-then-MERGE warehouse loader                        *)
(*            (core/extract_tickets.py, core/extract_chat_analysis.py)     *)
(*   pag*     LiveAgentClient.paginate and the resource fetchers           *)
(*            (core/liveagent.py)                                          *)
(*   ep*      the extract_and_load_* entry points (core/extract_*.py)      *)
(*   chat*    process_chat / process_single_chat                           *)
(*            (core/extract_chat_analysis.py)                              *)
(*   win*     set_filter and the scheduled runs (utils/date_utils.py,      *)
(*            app.py)                                                      *)
(*   geo*     process_address and geocode (utils/geocoding_utils.py)       *)
(*   dsr*     determine_sender_receiver (core/liveagent.py)                *)
(*   enrich*  the conversation-analysis run (app.py)                       *)
(*   log*     extract_and_load_logs (core/extraction_log.py)               *)
(*   sch*     generate_schema (utils/bq_utils.py)                          *)
(*   cache*   load_agents_cache (core/liveagent.py)                        *)
(*   flat*    fetch_ticket_message (core/liveagent.py)                     *)
(*   thr*     the pause of fallback_geocode (utils/geocoding_utils.py)     *)
(* Each specification starts one group and leaves the others parked.       *)
(***************************************************************************)
EXTENDS Integers, Sequences, FiniteSets, TLC

VARIABLES
    \* ---- warehouse merge-upsert ----
    target,      \* the target table: a bag of rows, [Rows -> Nat]
    staging,     \* the <table>_staging table: [exists, rows]
    history,     \* the <table>_history table (conversation analysis only)
    mkind,       \* which loader runs: "tickets" or "convo"
    moverlap,    \* TRUE when runs may overlap (no lock in the loader)
    mrun,        \* per run slot: [pc, num, batch, pre, src]
    mfirst,      \* the first run of the behaviour, once it ended
    mstarted,    \* number of runs started so far
    mlatest,     \* per ticket id: the payload of the last run that analysed
                 \* it, and of the last MERGE that carried it
    \* ---- LiveAgentClient.paginate and the resource fetchers ----
    pmode,       \* "single": one fetch; "concurrent": fetches share a client
    ptask,       \* per fetch: the locals of its paginate call and its log
    psem,        \* permits left, per semaphore (0: the client's own)
    \* ---- the extract_and_load_* entry points ----
    ep,          \* one run: [entry, pc, ping, step, log, result]
    \* ---- process_chat ----
    cpc,         \* "idle", "gathering", "returned", "raised"
    cn,          \* how many ticket ids were selected
    ctask,       \* per task: [pc, result]
    cpermits,    \* permits left in the semaphore of this call
    \* ---- the window of a run (set_filter) ----
    wmode,       \* "off", "rolling", "backfill"
    wclock,      \* the wall clock (Asia/Manila), as calendar fields
    wticks,      \* scheduled runs the clock has been advanced by
    wprev,       \* the window of the run before the last one
    wcur,        \* the window of the last run
    \* ---- process_address and geocode ----
    gpc,         \* "idle", "loop", "osm", "photon", "returned", "raised"
    gaddrs,      \* the column of addresses handed to process_address
    gi,          \* the row the loop is at
    gresult,     \* the local variable `result` of process_address
    glocations,  \* the results appended so far
    greqs,       \* external requests of the geocode call under way
    glog,        \* per address: how its geocode call went
    \* ---- determine_sender_receiver ----
    dpc,         \* "idle", "done"
    dcache,      \* agents_cache of the client
    din,         \* the arguments of the last call
    dout,        \* what the last call returned
    \* ---- extract_and_load_chat_analysis ----
    apc,         \* where the run is
    an,          \* ticket ids the query returned
    acause,      \* the call that raised, when the run raised
    \* ---- extract_and_load_logs ----
    lpc,         \* "idle", "running", "returned", "raised"
    lcalls,      \* calls made so far
    lerrors,     \* how many error messages the call was handed
    lstep,       \* the step the call is at
    ldone,       \* the steps of this call that gave their value
    lfailed,     \* the step that raised, when one did
    lbefore,     \* rows of the run-log table when the call started
    lrows,       \* rows of the run-log table
    ltables,     \* the tickets and messages tables when the call is made
    lstats,      \* the counts the call has put in its row so far
    \* ---- generate_schema ----
    schpc,       \* "idle", "done"
    schframe,    \* the frame handed to generate_schema
    schema,      \* the schema it returned
    \* ---- load_agents_cache and the message fetches of one client ----
    kconf,       \* is a warehouse configured on the client?
    kcache,      \* agents_cache of the client
    ktask,       \* per fetch_ticket_message call: [pc, wh, live, after, left]
    \* ---- the ticket loop of fetch_ticket_message ----
    fpc,         \* "idle", "loop", "returned"
    ftickets,    \* the tickets of ticket_payload, zipped
    fdata,       \* what paginate returned, per ticket fetched so far
    frows,       \* processed_messages
    fuserids,    \* unique_userids of the client
    \* ---- fallback_geocode: the pause before the external geocoders ----
    tpc,         \* "idle", "osm", "photon": where fallback_geocode is
    tnow,        \* the clock, time(), in quarters of a second
    time_osm,    \* the module global: unbound, or a time
    tcalls,      \* the external requests made so far: [svc, start, end, out]
    tn           \* calls of fallback_geocode so far

mergeVars == <<target, staging, history, mkind, moverlap, mrun, mfirst,
               mstarted, mlatest>>

pagVars == <<pmode, ptask, psem>>

epVars == <<ep>>

chatVars == <<cpc, cn, ctask, cpermits>>

winVars == <<wmode, wclock, wticks, wprev, wcur>>
geoVars == <<gpc, gaddrs, gi, gresult, glocations, greqs, glog>>
dsrVars == <<dpc, dcache, din, dout>>
enrichVars == <<apc, an, acause>>
logVars == <<lpc, lcalls, lerrors, lstep, ldone, lfailed, lbefore, lrows,
             ltables, lstats>>
schVars == <<schpc, schframe, schema>>
cacheVars == <<kconf, kcache, ktask>>
flatVars == <<fpc, ftickets, fdata, frows, fuserids>>
thrVars == <<tpc, tnow, time_osm, tcalls, tn>>

vars == <<mergeVars, pagVars, epVars, chatVars, winVars, geoVars, dsrVars,
         enrichVars, logVars, schVars, cacheVars, flatVars, thrVars>>

\* What the actions of one group leave alone.
notMerge == <<pagVars, epVars, chatVars, winVars, geoVars, dsrVars,
             enrichVars, logVars, schVars, cacheVars, flatVars, thrVars>>
notPag   == <<mergeVars, epVars, chatVars, winVars, geoVars, dsrVars,
             enrichVars, logVars, schVars, cacheVars, flatVars, thrVars>>
notEp    == <<mergeVars, pagVars, chatVars, winVars, geoVars, dsrVars,
             enrichVars, logVars, schVars, cacheVars, flatVars, thrVars>>
notChat  == <<mergeVars, pagVars, epVars, winVars, geoVars, dsrVars,
             enrichVars, logVars, schVars, cacheVars, flatVars, thrVars>>
notWin   == <<mergeVars, pagVars, epVars, chatVars, geoVars, dsrVars,
             enrichVars, logVars, schVars, cacheVars, flatVars, thrVars>>
notGeo   == <<mergeVars, pagVars, epVars, chatVars, winVars, dsrVars,
             enrichVars, logVars, schVars, cacheVars, flatVars, thrVars>>
notDsr   == <<mergeVars, pagVars, epVars, chatVars, winVars, geoVars,
             enrichVars, logVars, schVars, cacheVars, flatVars, thrVars>>
notEnrich == <<mergeVars, pagVars, epVars, chatVars, winVars, geoVars,
              dsrVars, logVars, schVars, cacheVars, flatVars, thrVars>>
notLog   == <<mergeVars, pagVars, epVars, chatVars, winVars, geoVars,
             dsrVars, enrichVars, schVars, cacheVars, flatVars, thrVars>>
notSch   == <<mergeVars, pagVars, epVars, chatVars, winVars, geoVars,
             dsrVars, enrichVars, logVars, cacheVars, flatVars, thrVars>>
notCache == <<mergeVars, pagVars, epVars, chatVars, winVars, geoVars,
              dsrVars, enrichVars, logVars, schVars, flatVars, thrVars>>
notFlat  == <<mergeVars, pagVars, epVars, chatVars, winVars, geoVars, dsrVars,
             enrichVars, logVars, schVars, cacheVars, thrVars>>
notThr   == <<mergeVars, pagVars, epVars, chatVars, winVars, geoVars, dsrVars,
             enrichVars, logVars, schVars, cacheVars, flatVars>>

(***************************************************************************)
(* Bounds of the model.                                                    *)
(***************************************************************************)
MaxBatch     == 2   \* rows in one batch
MaxMergeRuns == 2   \* merge-upsert runs started in one behaviour
MaxRecords   == 3   \* records the remote holds for one listing
MaxPerPage   == 2   \* page size the remote serves
MaxPages     == 3   \* max_pages handed to paginate
NumFetches   == 3   \* fetches started on one client
MaxChats     == 6   \* ticket ids handed to process_chat
MaxTicks     == 2   \* scheduled runs after the first
MaxAddresses == 2   \* rows handed to process_address
MaxLogCalls  == 2   \* calls of extract_and_load_logs
MaxErrors    == 2   \* error messages handed to one call
MaxListLen   == 2   \* elements of a list held by a field
NumMsgTasks  == 2   \* fetch_ticket_message calls on one client
MaxTickets   == 2   \* tickets handed to one fetch_ticket_message call
MaxGroups    == 2   \* message groups of one ticket
MaxFallbacks == 3  \* calls of fallback_geocode in one behaviour
MaxWait      == 6   \* quarter seconds between two calls of fallback_geocode
MaxDur       == 1   \* quarter seconds one external request takes

\* Two ticket ids and two payloads of the non-key columns are enough to tell
\* an insert from an overwrite and a touched key from an untouched one.
Keys   == {"t1", "t2"}
Vals   == {"v1", "v2"}
Rows   == Keys \X Vals
\* Run slots: slot 1 runs alone; slot 2 is a run that overlaps it.
MSlots == {1, 2}

RECURSIVE SumOver(_, _)
SumOver(S, f) ==
    IF S = {} THEN 0
    ELSE LET x == CHOOSE y \in S : TRUE IN f[x] + SumOver(S \ {x}, f)

EmptyTable   == [r \in Rows |-> 0]
TableSize(t) == SumOver(Rows, t)
KeysOf(t)    == {r[1] : r \in {x \in Rows : t[x] > 0}}
KeyCount(t, k) == SumOver({r \in Rows : r[1] = k}, t)
TableAdd(a, b) == [r \in Rows |-> a[r] + b[r]]

\* Every non-empty batch a fetch can deliver: nothing in the fetch path
\* removes a repeated id, so a key may occur more than once.
Batches == {b \in [Rows -> 0..MaxBatch] : TableSize(b) \in 1..MaxBatch}

\* The batch of a conversation-analysis run has one row for each ticket id
\* of SELECT DISTINCT ticket_id whose extraction gave a frame.
ConvoBatches == {b \in Batches : \A k \in Keys : KeyCount(b, k) <= 1}
BatchesOf(kind) == IF kind = "convo" THEN ConvoBatches ELSE Batches

\* The payload a table of one row for each key holds for a key it holds.
PayloadOf(t, k) == CHOOSE v \in Vals : t[<<k, v>>] > 0

NoPayload == "none"
NoLatest  == [k \in Keys |-> [analysed |-> NoPayload, merged |-> NoPayload]]

NoStaging == [exists |-> FALSE, rows |-> EmptyTable]
IdleRun   == [pc |-> "idle", num |-> 0, batch |-> EmptyTable,
              pre |-> EmptyTable, src |-> EmptyTable, why |-> "none"]
NoFirst   == [ended |-> FALSE, outcome |-> "none", batch |-> EmptyTable,
              after |-> EmptyTable]

(***************************************************************************)
(* The MERGE statement (extract_tickets.py 87-97, extract_chat_analysis.py *)
(* 103-113):  MERGE target USING staging ON target.id = source.id          *)
(*            WHEN MATCHED THEN UPDATE SET <every listed column>           *)
(*            WHEN NOT MATCHED THEN INSERT (...) VALUES (...)              *)
(* A row is <<key, payload>>; the payload stands for the listed non-key    *)
(* columns, which the statement always assigns together.                   *)
(***************************************************************************)

\* The statement is rejected, and changes nothing, when a target row joins
\* more than one source row.
MergeRejects(tgt, src) ==
    \E k \in KeysOf(tgt) : KeyCount(src, k) > 1

\* Mutant: WHEN MATCHED is lost, every source row is inserted.
MergeInsertsAll(tgt, src) == TableAdd(tgt, src)

\* Mutant: WHEN MATCHED leaves the matched target rows as they are.
MergeSkipsMatched(tgt, src) ==
    [r \in Rows |-> IF r[1] \in KeysOf(tgt) THEN tgt[r] ELSE src[r]]

\* The target after an accepted statement.
MergeApply(tgt, src) ==
    [r \in Rows |->
        LET k == r[1] IN
        IF k \in KeysOf(tgt)
        THEN IF KeyCount(src, k) = 0
             THEN tgt[r]                         \* no source row: untouched
             ELSE IF src[r] > 0                  \* matched: overwritten
                  THEN KeyCount(tgt, k)
                  ELSE 0
        ELSE src[r]]                             \* not matched: inserted

Finished(pc) == pc \in {"idle", "done", "failed"}

\* A run ends; the first run of the behaviour is remembered with the
\* target it leaves behind.
LogRun(r, outcome, tgt) ==
    mfirst' = IF mrun[r].num = 1
              THEN [ended |-> TRUE, outcome |-> outcome,
                    batch |-> mrun[r].batch, after |-> tgt]
              ELSE mfirst

\* generate_schema + create_table_bq: the run begins with its batch.
M_Start(r, b) ==
    /\ mkind # "none"
    /\ Finished(mrun[r].pc)
    /\ mstarted < MaxMergeRuns
    /\ moverlap \/ r = 1
    /\ b \in BatchesOf(mkind)
    /\ mrun' = [mrun EXCEPT ![r] = [IdleRun EXCEPT !.pc = "created",
                                                   !.num = mstarted + 1,
                                                   !.batch = b]]
    /\ mstarted' = mstarted + 1
    /\ mlatest' = [k \in Keys |->
                      IF mkind = "convo" /\ k \in KeysOf(b)
                      THEN [mlatest[k] EXCEPT !.analysed = PayloadOf(b, k)]
                      ELSE mlatest[k]]
    /\ UNCHANGED <<target, staging, history, mkind, moverlap, mfirst>>
    /\ UNCHANGED notMerge

\* Mutant: the history load replaces the rows (WRITE_TRUNCATE).
HistoryLoadTruncates(old, batch) == batch

\* WRITE_APPEND: the rows of the history table after the load job.
HistoryLoad(old, batch) == TableAdd(old, batch)

\* load_data_to_bq(df, ..., history, "WRITE_APPEND"): conversation analysis only.
M_LoadHistory(r, ok) ==
    /\ mkind = "convo"
    /\ mrun[r].pc = "created"
    /\ IF ok
       THEN /\ history' = HistoryLoad(history, mrun[r].batch)
            /\ mrun' = [mrun EXCEPT ![r].pc = "hist"]
            /\ UNCHANGED mfirst
       ELSE /\ UNCHANGED history
            /\ mrun' = [mrun EXCEPT ![r].pc = "failed", ![r].why = "error"]
            /\ LogRun(r, "failed", target)
    /\ UNCHANGED <<target, staging, mkind, moverlap, mstarted, mlatest>>
    /\ UNCHANGED notMerge

\* Mutant: the staging load appends (WRITE_APPEND).
StagingLoadAppends(old, batch) == TableAdd(old, batch)

\* WRITE_TRUNCATE: the rows of the staging table after the load job.
StagingLoad(old, batch) == batch

\* load_data_to_bq(df, ..., staging, "WRITE_TRUNCATE"): ensure_table, then
\* the load job replaces the rows; an error is raised again.
M_LoadStaging(r, ok) ==
    /\ mrun[r].pc = IF mkind = "convo" THEN "hist" ELSE "created"
    /\ IF ok
       THEN /\ staging' = [exists |-> TRUE,
                            rows |-> StagingLoad(staging.rows, mrun[r].batch)]
            /\ mrun' = [mrun EXCEPT ![r].pc = "staged"]
            /\ UNCHANGED mfirst
       ELSE /\ staging' \in {staging, [staging EXCEPT !.exists = TRUE]}
            /\ mrun' = [mrun EXCEPT ![r].pc = "failed", ![r].why = "error"]
            /\ LogRun(r, "failed", target)
    /\ UNCHANGED <<target, history, mkind, moverlap, mstarted, mlatest>>
    /\ UNCHANGED notMerge

\* sql_query_bq(merge_query, return_data=False)
M_Merge(r, ok) ==
    /\ mrun[r].pc = "staged"
    /\ IF ok /\ staging.exists /\ ~MergeRejects(target, staging.rows)
       THEN /\ target' = MergeApply(target, staging.rows)
            /\ mrun' = [mrun EXCEPT ![r].pc = "merged", ![r].pre = target,
                                    ![r].src = staging.rows]
            /\ mlatest' = [k \in Keys |->
                              IF mkind = "convo" /\ k \in KeysOf(staging.rows)
                              THEN [mlatest[k] EXCEPT
                                       !.merged = PayloadOf(staging.rows, k)]
                              ELSE mlatest[k]]
            /\ UNCHANGED mfirst
       ELSE /\ UNCHANGED <<target, mlatest>>
            /\ mrun' = [mrun EXCEPT
                            ![r].pc = "failed",
                            ![r].why = IF ~staging.exists THEN "no_staging"
                                       ELSE IF ok THEN "rejected"
                                       ELSE "error"]
            /\ LogRun(r, "failed", target)
    /\ UNCHANGED <<staging, history, mkind, moverlap, mstarted>>
    /\ UNCHANGED notMerge

\* sql_query_bq(drop, return_data=False)
M_Drop(r, ok) ==
    /\ mrun[r].pc = "merged"
    /\ IF ok /\ staging.exists
       THEN /\ staging' = NoStaging
            /\ mrun' = [mrun EXCEPT ![r].pc = "done"]
            /\ LogRun(r, "done", target)
       ELSE /\ UNCHANGED staging
            /\ mrun' = [mrun EXCEPT
                            ![r].pc = "failed",
                            ![r].why = IF ~staging.exists THEN "no_staging"
                                       ELSE "error"]
            /\ LogRun(r, "failed", target)
    /\ UNCHANGED <<target, history, mkind, moverlap, mstarted, mlatest>>
    /\ UNCHANGED notMerge

MergeStart(kinds, overlaps) ==
    /\ target = EmptyTable
    /\ staging = NoStaging
    /\ history = EmptyTable
    /\ mkind \in kinds
    /\ moverlap \in overlaps
    /\ mrun = [r \in MSlots |-> IdleRun]
    /\ mfirst = NoFirst
    /\ mstarted = 0
    /\ mlatest = NoLatest

\* No loader runs: M_Start needs a kind.
MergeParked == MergeStart({"none"}, {FALSE})

MergeNext ==
    \E r \in MSlots :
        \/ \E b \in Batches : M_Start(r, b)
        \/ \E ok \in BOOLEAN : M_LoadHistory(r, ok)
        \/ \E ok \in BOOLEAN : M_LoadStaging(r, ok)
        \/ \E ok \in BOOLEAN : M_Merge(r, ok)
        \/ \E ok \in BOOLEAN : M_Drop(r, ok)

(***************************************************************************)
(* LiveAgentClient.paginate (liveagent.py 82-108) behind a resource        *)
(* fetcher (Agent.get_agents, Ticket.fetch_tickets,                        *)
(* Ticket.fetch_ticket_message), which builds a temporary client for it.   *)
(* The remote holds `total` records and serves them `per` to a page; a     *)
(* record is its index, so page k holds (k-1)*per+1 .. k*per.              *)
(***************************************************************************)
SemSize == 2                 \* asyncio.Semaphore(2)
PTasks  == 1..NumFetches
Gates   == {0} \cup PTasks   \* 0: LiveAgentClient.sem; t: fetch t's own

Min(a, b) == IF a < b THEN a ELSE b
Max(a, b) == IF a > b THEN a ELSE b
CeilDiv(n, p) == (n + p - 1) \div p

\* The records of page k, in order; <<>> past the end.
PageRecords(total, per, k) ==
    [i \in 1..Max(0, Min(per, total - (k - 1) * per)) |-> (k - 1) * per + i]

IdleFetch == [pc |-> "idle", page |-> 1, maxp |-> 0, total |-> 0, per |-> 1,
              gate |-> 0, data |-> <<>>, reqs |-> <<>>, got |-> 0,
              failedAt |-> 0, sawEmpty |-> FALSE]

\* _get_temp_client (260-268): a fresh LiveAgentClient with a semaphore of
\* its own; the fetch pages through that one.
TempClientGate(t) == t

InFlight == {t \in PTasks : ptask[t].pc = "inflight"}

\* A fetcher is called: temp client, then paginate's locals (85-86).
P_Call(t, maxp, total, per) ==
    /\ pmode \in {"single", "concurrent"}
    /\ pmode = "single" => t = 1
    /\ ptask[t].pc = "idle"
    /\ ptask' = [ptask EXCEPT ![t] = [IdleFetch EXCEPT
                     !.pc = "loop", !.maxp = maxp, !.total = total,
                     !.per = per, !.gate = TempClientGate(t)]]
    /\ psem' = [psem EXCEPT ![TempClientGate(t)] = SemSize]
    /\ UNCHANGED pmode
    /\ UNCHANGED notPag

\* Mutant: the loop test is page < max_pages.
P_LoopStopsEarly(t) ==
    /\ ptask[t].pc = "loop"
    /\ ptask' = [ptask EXCEPT ![t].pc =
                    IF ptask[t].page < ptask[t].maxp THEN "acquire"
                    ELSE "returned"]
    /\ UNCHANGED <<pmode, psem>>
    /\ UNCHANGED notPag

\* while page <= max_pages (88); past it, return all_data (108).
P_Loop(t) ==
    /\ ptask[t].pc = "loop"
    /\ ptask' = [ptask EXCEPT ![t].pc =
                    IF ptask[t].page <= ptask[t].maxp THEN "acquire"
                    ELSE "returned"]
    /\ UNCHANGED <<pmode, psem>>
    /\ UNCHANGED notPag

\* async with self.sem (90)
P_Acquire(t) ==
    /\ ptask[t].pc = "acquire"
    /\ psem[ptask[t].gate] > 0
    /\ psem' = [psem EXCEPT ![ptask[t].gate] = @ - 1]
    /\ ptask' = [ptask EXCEPT ![t].pc = "sleep"]
    /\ UNCHANGED pmode
    /\ UNCHANGED notPag

\* await asyncio.sleep(THROTTLE_DELAY), then session.get(_page = page) (91-93)
P_Request(t) ==
    /\ ptask[t].pc = "sleep"
    /\ ptask' = [ptask EXCEPT ![t].pc = "inflight",
                              ![t].reqs = Append(@, ptask[t].page)]
    /\ UNCHANGED <<pmode, psem>>
    /\ UNCHANGED notPag

\* Leaving the async with block gives the permit back.
Release(t) == psem' = [psem EXCEPT ![ptask[t].gate] = @ + 1]

\* Mutant: page += 1 is lost.
P_PageDataSamePage(t) ==
    /\ ptask[t].pc = "inflight"
    /\ PageRecords(ptask[t].total, ptask[t].per, ptask[t].page) # <<>>
    /\ ptask' = [ptask EXCEPT
                    ![t].pc = "loop",
                    ![t].data = @ \o PageRecords(ptask[t].total, ptask[t].per,
                                                 ptask[t].page),
                    ![t].got = @ + 1]
    /\ Release(t)
    /\ UNCHANGED pmode
    /\ UNCHANGED notPag

\* A page with records: all_data.extend(data); page += 1 (103-104)
P_PageData(t) ==
    /\ ptask[t].pc = "inflight"
    /\ PageRecords(ptask[t].total, ptask[t].per, ptask[t].page) # <<>>
    /\ ptask' = [ptask EXCEPT
                    ![t].pc = "loop",
                    ![t].data = @ \o PageRecords(ptask[t].total, ptask[t].per,
                                                 ptask[t].page),
                    ![t].page = @ + 1,
                    ![t].got = @ + 1]
    /\ Release(t)
    /\ UNCHANGED pmode
    /\ UNCHANGED notPag

\* A page without records: break (100-101)
P_PageEmpty(t) ==
    /\ ptask[t].pc = "inflight"
    /\ PageRecords(ptask[t].total, ptask[t].per, ptask[t].page) = <<>>
    /\ ptask' = [ptask EXCEPT ![t].pc = "returned", ![t].got = @ + 1,
                              ![t].sawEmpty = TRUE]
    /\ Release(t)
    /\ UNCHANGED pmode
    /\ UNCHANGED notPag

\* Mutant: a failed page is asked for again.
P_ClientErrorRetries(t) ==
    /\ ptask[t].pc = "inflight"
    /\ ptask' = [ptask EXCEPT ![t].pc = "loop", ![t].got = @ + 1,
                              ![t].failedAt = ptask[t].page]
    /\ Release(t)
    /\ UNCHANGED pmode
    /\ UNCHANGED notPag

\* aiohttp.ClientError (remote unreachable, non-2xx from raise_for_status):
\* logged, break (105-107)
P_ClientError(t) ==
    /\ ptask[t].pc = "inflight"
    /\ ptask' = [ptask EXCEPT ![t].pc = "returned", ![t].got = @ + 1,
                              ![t].failedAt = ptask[t].page]
    /\ Release(t)
    /\ UNCHANGED pmode
    /\ UNCHANGED notPag

\* Any other exception of the request (a body that is no JSON, a timeout of
\* the session) is not caught by paginate: it leaves through the async with.
P_OtherError(t) ==
    /\ ptask[t].pc = "inflight"
    /\ ptask' = [ptask EXCEPT ![t].pc = "raised", ![t].got = @ + 1]
    /\ Release(t)
    /\ UNCHANGED pmode
    /\ UNCHANGED notPag

PagStart(mode) ==
    /\ pmode = mode
    /\ ptask = [t \in PTasks |-> IdleFetch]
    /\ psem = [g \in Gates |-> SemSize]

PagParked == PagStart("off")

\* One fetch, every max_pages and every remote within the bounds.
PagNext ==
    \E t \in PTasks :
        \/ \E maxp \in 0..MaxPages, total \in 0..MaxRecords,
              per \in 1..MaxPerPage : P_Call(t, maxp, total, per)
        \/ P_Loop(t)
        \/ P_Acquire(t)
        \/ P_Request(t)
        \/ P_PageData(t)
        \/ P_PageEmpty(t)
        \/ P_ClientError(t)
        \/ P_OtherError(t)

\* Several fetches on one client, each over a short listing.
GateNext ==
    \E t \in PTasks :
        \/ \E total \in 0..1 : P_Call(t, 2, total, 1)
        \/ P_Loop(t)
        \/ P_Acquire(t)
        \/ P_Request(t)
        \/ P_PageData(t)
        \/ P_PageEmpty(t)
        \/ P_ClientError(t)
        \/ P_OtherError(t)

(***************************************************************************)
(* The entry points extract_and_load_tickets, _ticket_messages, _agents,   *)
(* _tags and _users: open a client, ping, and only on success fetch and    *)
(* load.  A run is the list of its remote calls and warehouse operations;  *)
(* each entry says, per operation, what an empty result and what a failure *)
(* does to the run: "next" (go on), "none" (logged, the entry point        *)
(* returns None) or "raise" (the exception reaches the caller).            *)
(***************************************************************************)
Entries == {"tickets", "messages", "agents", "tags", "users"}

Op(name, kind, onEmpty, onFail) ==
    [op |-> name, kind |-> kind, onEmpty |-> onEmpty, onFail |-> onFail]

StepsOf(e) ==
    CASE e = "tickets" ->
           \* fetch_tickets (29); an empty frame raises ValueError, which is
           \* logged (31-32, 117-118); create_table_bq logs its own errors
           \* (bq_utils 135-136); staging load, MERGE and DROP raise (66-100)
           << Op("fetch_tickets", "api", "none", "raise"),
              Op("create_table", "warehouse", "next", "next"),
              Op("load_staging", "warehouse", "next", "raise"),
              Op("merge", "warehouse", "next", "raise"),
              Op("drop", "warehouse", "next", "raise") >>
      [] e = "messages" ->
           \* fetch_ticket_message (134): agents cache from the warehouse and
           \* from /agents (liveagent 142-161), then the messages; its errors
           \* are logged and what was collected is returned (428-432); an
           \* empty frame is logged (142-143, 182-183); append (159-166);
           \* populate_users_from_collected_ids (178)
           << Op("query_agents", "warehouse", "next", "next"),
              Op("fetch_agents", "api", "next", "next"),
              Op("fetch_messages", "api", "none", "none"),
              Op("append_messages", "warehouse", "next", "raise"),
              Op("fetch_users", "api", "next", "next"),
              Op("append_users", "warehouse", "next", "raise") >>
      [] e = "agents" ->
           \* get_agents (15); set_timezone on a frame without the column
           \* raises (19-23); append (25-32)
           << Op("fetch_agents", "api", "raise", "raise"),
              Op("append_agents", "warehouse", "next", "raise") >>
      [] e = "tags" ->
           \* fetch_tags raises again (liveagent 138-140); append (23-30)
           << Op("fetch_tags", "api", "next", "raise"),
              Op("append_tags", "warehouse", "next", "raise") >>
      [] e = "users" ->
           \* user ids from the messages table (16-21); get_user raises
           \* again, concat of nothing raises (23-24); truncate load (27-34)
           << Op("query_userids", "warehouse", "raise", "raise"),
              Op("fetch_users", "api", "raise", "raise"),
              Op("truncate_load_users", "warehouse", "next", "raise") >>

IdleEntry == [entry |-> "none", pc |-> "idle", ping |-> "none", step |-> 1,
              log |-> <<>>, result |-> "none"]

\* async with LiveAgentClient(...) as client; client.ping() is sent.
E_Begin(e) ==
    /\ ep.pc = "idle"
    /\ ep.entry = "ready"
    /\ ep' = [ep EXCEPT !.entry = e, !.pc = "pinging"]
    /\ UNCHANGED notEp

\* LiveAgentClient.ping (62-80): True only for a 200; a client error and any
\* other exception are logged and give False.
PingOutcomes == {"200", "non200", "client_error", "other_error"}
PingSuccess(outcome) == outcome = "200"

E_Ping(outcome) ==
    /\ ep.pc = "pinging"
    /\ ep' = [ep EXCEPT !.pc = "pinged", !.ping = outcome]
    /\ UNCHANGED notEp

\* Mutant: the result of the ping is not looked at.
E_AfterPingIgnored ==
    /\ ep.pc = "pinged"
    /\ ep' = [ep EXCEPT !.pc = "running"]
    /\ UNCHANGED notEp

\* if success: ... else: logging.error(...) and the entry point returns None.
E_AfterPing ==
    /\ ep.pc = "pinged"
    /\ ep' = IF PingSuccess(ep.ping)
             THEN [ep EXCEPT !.pc = "running"]
             ELSE [ep EXCEPT !.pc = "returned", !.result = "none"]
    /\ UNCHANGED notEp

\* Where a run goes after an operation that ended with `how`.
AfterOp(how) ==
    CASE how = "next" ->
           IF ep.step = Len(StepsOf(ep.entry))
           THEN [pc |-> "returned", result |-> "records"]
           ELSE [pc |-> "running", result |-> "none"]
      [] how = "none" -> [pc |-> "returned", result |-> "none"]
      [] how = "raise" -> [pc |-> "raised", result |-> "raised"]

\* The next remote call or warehouse operation of the run is made.
\* A warehouse operation failed with a ValueError (or a subclass of it):
\* the tickets and the messages entry points have `except ValueError`
\* before `except Exception`, and it logs without raising again
\* (extract_tickets.py 117-118, 182-183).
OnValueError(e, o) ==
    IF o.onFail = "raise" /\ e \in {"tickets", "messages"}
    THEN "none"
    ELSE o.onFail

StepOutcomes == {"ok", "empty", "fail", "value_error"}

E_Step(outcome) ==
    /\ ep.pc = "running"
    /\ LET o == StepsOf(ep.entry)[ep.step]
           how == CASE outcome = "ok" -> "next"
                    [] outcome = "empty" -> o.onEmpty
                    [] outcome = "fail" -> o.onFail
                    [] outcome = "value_error" -> OnValueError(ep.entry, o)
           nxt == AfterOp(how)
       IN  /\ outcome = "empty" => o.kind = "api" \/ o.op = "query_userids"
           /\ outcome = "value_error" => o.kind = "warehouse"
           /\ ep' = [ep EXCEPT !.log = Append(@, [op |-> o.op, kind |-> o.kind,
                                                   outcome |-> outcome]),
                               !.step = @ + 1,
                               !.pc = nxt.pc,
                               !.result = nxt.result]
    /\ UNCHANGED notEp

EpStart(entry) == ep = [IdleEntry EXCEPT !.entry = entry]
EpParked == EpStart("none")

EpNext ==
    \/ \E e \in Entries : E_Begin(e)
    \/ \E outcome \in PingOutcomes : E_Ping(outcome)
    \/ E_AfterPing
    \/ \E outcome \in StepOutcomes : E_Step(outcome)

(***************************************************************************)
(* process_chat (extract_chat_analysis.py 34-42): one Semaphore(5) per     *)
(* call, one process_single_chat coroutine per selected ticket id, all     *)
(* gathered.  process_single_chat (16-32) enters `async with semaphore`,   *)
(* awaits the extraction, and returns one row, or an empty frame when      *)
(* anything was raised; leaving the `async with` gives the permit back     *)
(* either way.                                                             *)
(***************************************************************************)
ChatGateSize == 5
CTasks == 1..MaxChats

\* analyze_convo (convodataextract.py 179-217): the parsed answer with the
\* tokens used, or, when the call raised, null fields with the token count
\* of the prompt.
AnalyzeOutcomes == {"row", "null_row"}

\* How the awaited extraction of one conversation ends: with what
\* analyze_convo gave, or with an exception (the transcript could not be
\* read, the factory could not be called).
CreateOutcomes == AnalyzeOutcomes \cup {"raised"}

\* The frame process_single_chat returns: the row built from the data, or
\* an empty frame when anything was raised.
FrameOf(outcome) == IF outcome = "raised" THEN "empty" ELSE outcome

NoChatTasks == [t \in CTasks |-> [pc |-> "absent", result |-> "none"]]

Inside == {t \in CTasks : ctask[t].pc = "inside"}
Waiting == {t \in CTasks : ctask[t].pc = "waiting"}

\* process_chat(ticket_ids): the semaphore and the coroutines are created
\* and handed to asyncio.gather.
C_Call(n) ==
    /\ cpc = "idle"
    /\ cpc' = "gathering"
    /\ cn' = n
    /\ ctask' = [t \in CTasks |->
                    IF t <= n THEN [pc |-> "waiting", result |-> "none"]
                    ELSE [pc |-> "absent", result |-> "none"]]
    /\ cpermits' = ChatGateSize
    /\ UNCHANGED notChat

\* Mutant: the section is entered without a permit being asked for.
C_EnterUngated(t) ==
    /\ cpc = "gathering"
    /\ ctask[t].pc = "waiting"
    /\ cpermits' = cpermits - 1
    /\ ctask' = [ctask EXCEPT ![t].pc = "inside"]
    /\ UNCHANGED <<cpc, cn>>
    /\ UNCHANGED notChat

\* async with semaphore: a permit is taken when there is one.
C_Enter(t) ==
    /\ cpc = "gathering"
    /\ ctask[t].pc = "waiting"
    /\ cpermits > 0
    /\ cpermits' = cpermits - 1
    /\ ctask' = [ctask EXCEPT ![t].pc = "inside"]
    /\ UNCHANGED <<cpc, cn>>
    /\ UNCHANGED notChat

\* The extraction ends; the row is returned, or the exception is logged and
\* an empty frame returned; the `async with` block is left.
C_Leave(t, outcome) ==
    /\ cpc = "gathering"
    /\ ctask[t].pc = "inside"
    /\ ctask' = [ctask EXCEPT ![t] =
                    [pc |-> "done",
                     result |-> FrameOf(outcome)]]
    /\ cpermits' = cpermits + 1
    /\ UNCHANGED <<cpc, cn>>
    /\ UNCHANGED notChat

\* gather has every result; pd.concat of no frames at all raises.
C_Return ==
    /\ cpc = "gathering"
    /\ \A t \in CTasks : ctask[t].pc \in {"absent", "done"}
    /\ cpc' = IF cn = 0 THEN "raised" ELSE "returned"
    /\ UNCHANGED <<cn, ctask, cpermits>>
    /\ UNCHANGED notChat

ChatStart(pc) ==
    /\ cpc = pc
    /\ cn = 0
    /\ ctask = NoChatTasks
    /\ cpermits = ChatGateSize
ChatParked == ChatStart("off")

ChatNext ==
    \/ \E n \in 0..MaxChats : C_Call(n)
    \/ \E t \in CTasks : C_Enter(t)
    \/ \E t \in CTasks, outcome \in CreateOutcomes : C_Leave(t, outcome)
    \/ C_Return

(***************************************************************************)
(* The window of a run.  update_tickets (app.py 131-163) hands set_filter  *)
(* (date_utils.py 9-32) either the date of a backfill with the creation    *)
(* field, or the wall clock less six hours with the change field.  A       *)
(* pd.Timestamp is its calendar fields; adding a Timedelta goes through    *)
(* the seconds since the origin of the timeline and back.                  *)
(***************************************************************************)
Stamp(y, mo, d, h, mi, s) ==
    [y |-> y, mo |-> mo, d |-> d, h |-> h, mi |-> mi, s |-> s]

Origin == Stamp(2023, 1, 1, 0, 0, 0)
Years == Origin.y..(Origin.y + 4)

IsLeap(y) == (y % 4 = 0 /\ y % 100 # 0) \/ y % 400 = 0
DaysInYear(y) == IF IsLeap(y) THEN 366 ELSE 365
DaysInMonth(y, m) ==
    CASE m \in {1, 3, 5, 7, 8, 10, 12} -> 31
      [] m \in {4, 6, 9, 11} -> 30
      [] m = 2 -> IF IsLeap(y) THEN 29 ELSE 28

RECURSIVE DaysBeforeYear(_)
DaysBeforeYear(y) ==
    IF y <= Origin.y THEN 0 ELSE DaysBeforeYear(y - 1) + DaysInYear(y - 1)

RECURSIVE DaysBeforeMonth(_, _)
DaysBeforeMonth(y, m) ==
    IF m = 1 THEN 0 ELSE DaysBeforeMonth(y, m - 1) + DaysInMonth(y, m - 1)

ToSeconds(ts) ==
    ((DaysBeforeYear(ts.y) + DaysBeforeMonth(ts.y, ts.mo) + ts.d - 1) * 24
        + ts.h) * 3600 + ts.mi * 60 + ts.s

FromSeconds(n) ==
    LET dn  == n \div 86400
        r   == n % 86400
        y   == CHOOSE yy \in Years :
                  DaysBeforeYear(yy) <= dn /\ dn < DaysBeforeYear(yy + 1)
        doy == dn - DaysBeforeYear(y)
        mo  == CHOOSE m \in 1..12 :
                  /\ DaysBeforeMonth(y, m) <= doy
                  /\ doy < DaysBeforeMonth(y, m) + DaysInMonth(y, m)
    IN  Stamp(y, mo, doy - DaysBeforeMonth(y, mo) + 1,
              r \div 3600, (r % 3600) \div 60, r % 60)

\* ts + pd.Timedelta(seconds = n), n of either sign
PlusSeconds(ts, n) == FromSeconds(ToSeconds(ts) + n)

\* Mutant: the reference time is not floored.
FloorHourKeepsMinutes(ts) == ts

\* ts.floor('h')
FloorHour(ts) == [ts EXCEPT !.mi = 0, !.s = 0]

\* ts + pd.offsets.MonthEnd(1): the end of this month, or of the next one
\* when ts is on a month end already; the time of day is kept.
MonthEnd(ts) ==
    IF ts.d < DaysInMonth(ts.y, ts.mo)
    THEN [ts EXCEPT !.d = DaysInMonth(ts.y, ts.mo)]
    ELSE LET ny == IF ts.mo = 12 THEN ts.y + 1 ELSE ts.y
             nm == IF ts.mo = 12 THEN 1 ELSE ts.mo + 1
         IN  [ts EXCEPT !.y = ny, !.mo = nm, !.d = DaysInMonth(ny, nm)]

WindowHours == 6
LagHours == 6

\* Mutant: the rolling window is a full six hours long.
SetFilterSixHours(date, field) ==
    IF field = "date_created"
    THEN LET start == [date EXCEPT !.d = 1, !.h = 0, !.mi = 0, !.s = 0]
         IN  [start |-> start,
              end |-> [MonthEnd(start) EXCEPT !.h = 23, !.mi = 59, !.s = 59]]
    ELSE LET start == FloorHour(date)
         IN  [start |-> start,
              end |-> PlusSeconds(start, WindowHours * 3600)]

\* Mutant: the backfill window starts on the day of the reference date.
SetFilterKeepsDay(date, field) ==
    IF field = "date_created"
    THEN LET start == [date EXCEPT !.h = 0, !.mi = 0, !.s = 0]
         IN  [start |-> start,
              end |-> [MonthEnd(start) EXCEPT !.h = 23, !.mi = 59, !.s = 59]]
    ELSE LET start == FloorHour(date)
         IN  [start |-> start,
              end |-> PlusSeconds(start, WindowHours * 3600 - 1)]

\* set_filter(date, filter_field): the two bounds written into the filter.
set_filter(date, field) ==
    IF field = "date_created"
    THEN LET start == [date EXCEPT !.d = 1, !.h = 0, !.mi = 0, !.s = 0]
         IN  [start |-> start,
              end |-> [MonthEnd(start) EXCEPT !.h = 23, !.mi = 59, !.s = 59]]
    ELSE LET start == FloorHour(date)
         IN  [start |-> start,
              end |-> PlusSeconds(start, WindowHours * 3600 - 1)]

\* The reference times tried: both ends and the middle of months of every
\* length, of a leap year and of a common year, at hours and at instants
\* on and off the boundaries.
SampleYears == {2024, 2025}
SampleDays == {<<1, 1>>, <<1, 31>>, <<2, 1>>, <<2, 15>>, <<2, 28>>, <<2, 29>>,
               <<3, 1>>, <<4, 1>>, <<4, 15>>, <<4, 30>>, <<5, 15>>,
               <<12, 1>>, <<12, 31>>}
SampleHours == {0, 5, 6, 17, 18, 23}
SampleInstants == {<<0, 0>>, <<0, 1>>, <<30, 0>>, <<59, 59>>}
SampleTimes ==
    {ts \in {Stamp(y, md[1], md[2], h, ms[1], ms[2]) :
                y \in SampleYears, md \in SampleDays,
                h \in SampleHours, ms \in SampleInstants} :
        ts.d <= DaysInMonth(ts.y, ts.mo)}

NoWindow == [field |-> "none", ref |-> Origin, start |-> Origin, end |-> Origin]

WindowOf(ref, date, field) ==
    LET f == set_filter(date, field)
    IN  [field |-> field, ref |-> ref, start |-> f.start, end |-> f.end]

\* update_tickets, is_initial: the date given is the reference date.
W_Backfill(date) ==
    /\ wmode = "backfill"
    /\ wcur' = WindowOf(date, date, "date_created")
    /\ UNCHANGED <<wmode, wclock, wticks, wprev>>
    /\ UNCHANGED notWin

\* update_tickets, scheduled: now less six hours is the reference time.
W_Rolling ==
    /\ wmode = "rolling"
    /\ wprev' = wcur
    /\ wcur' = WindowOf(wclock, PlusSeconds(wclock, 0 - LagHours * 3600),
                        "date_changed")
    /\ UNCHANGED <<wmode, wclock, wticks>>
    /\ UNCHANGED notWin

\* The scheduler's next run is one window later.
W_NextSchedule ==
    /\ wmode = "rolling"
    /\ wticks < MaxTicks
    /\ wticks' = wticks + 1
    /\ wclock' = PlusSeconds(wclock, WindowHours * 3600)
    /\ UNCHANGED <<wmode, wprev, wcur>>
    /\ UNCHANGED notWin

WinStart(mode, clocks) ==
    /\ wmode = mode
    /\ wclock \in clocks
    /\ wticks = 0
    /\ wprev = NoWindow
    /\ wcur = NoWindow
WinParked == WinStart("off", {Origin})

\* extract_and_load_tickets(date, ..., DATE_CHANGED): the filter of the
\* request is set_filter of the date it was handed.
W_Changed(date) ==
    /\ wmode = "changed"
    /\ wcur' = WindowOf(date, date, "date_changed")
    /\ UNCHANGED <<wmode, wclock, wticks, wprev>>
    /\ UNCHANGED notWin

\* The sample times and the time of the documented example.
FilterTimes == SampleTimes \cup {Stamp(2025, 7, 8, 15, 2, 33)}

WinNext == W_Rolling \/ W_NextSchedule
ChangedNext == \E date \in FilterTimes : W_Changed(date)
BackfillNext == \E date \in SampleTimes : W_Backfill(date)

(***************************************************************************)
(* geocode and fallback_geocode (geocoding_utils.py 59-135) inside the     *)
(* loop of process_address (extract_chat_analysis.py 44-57).  The          *)
(* gazetteer is one province, one city in it and one barangay of that      *)
(* city; an address is what it is as a Python value and, when it is text,  *)
(* the similarity it has to each gazetteer entry, in hundredths.           *)
(***************************************************************************)
GRows == {"prov", "city", "brgy"}
GMunProv == {"prov", "city"}

LocalThreshold == 10
Scores == {0, LocalThreshold - 1, LocalThreshold}
ZeroScores == [r \in GRows |-> 0]

\* "text" is a non-empty string; "empty" is '' or None; "nan" is a float
\* NaN (clean_str gives None, len(None) raises TypeError); "number" is a
\* value without .replace (clean_str raises AttributeError).
Addresses ==
    [kind : {"text"}, sc : [GRows -> Scores]]
        \cup {[kind |-> k, sc |-> ZeroScores] : k \in {"empty", "nan", "number"}}

\* The columns of n rows over S.
Columns(S, n) == [1..n -> S]

\* Stage one keeps the municipality/province entries of nonzero score;
\* stage two collects every entry of a matched city or province.
Candidates(a) ==
    LET matched == {r \in GMunProv : a.sc[r] # 0}
    IN  {r \in GRows : \/ "prov" \in matched
                       \/ "city" \in matched /\ r \in {"city", "brgy"}}

\* sort_values(by="score", ascending=False).iloc[0]: a row of top score.
TopRows(a) ==
    {r \in Candidates(a) : \A q \in Candidates(a) : a.sc[q] <= a.sc[r]}

\* Mutant: a score of exactly 0.1 is not enough.
LocalAcceptsAbove(score) == score > LocalThreshold

\* if local_match["score"] >= 0.1
LocalAccepts(score) == score >= LocalThreshold

Unbound == [for |-> 0, coords |-> "unbound", err |-> FALSE, source |-> "none"]
Match(i, source) ==
    [for |-> i, coords |-> "found", err |-> FALSE, source |-> source]
NullResult(i) == [for |-> i, coords |-> "null", err |-> FALSE, source |-> "none"]
ErrorResult(i) == [for |-> i, coords |-> "null", err |-> TRUE, source |-> "none"]

GeoEntry(out, reqs, top) == [out |-> out, reqs |-> reqs, top |-> top]

\* process_address(df): the loop starts, `result` not yet bound.
PA_Call(addrs) ==
    /\ gpc = "idle"
    /\ gpc' = "loop"
    /\ gaddrs' = addrs
    /\ gi' = 1
    /\ gresult' = Unbound
    /\ glocations' = <<>>
    /\ greqs' = <<>>
    /\ glog' = <<>>
    /\ UNCHANGED notGeo

\* geocode has ended for row gi with `res` bound to result;
\* locations.append(result) and on to the next row.
Emit(res, entry) ==
    /\ gresult' = res
    /\ glocations' = Append(glocations, res)
    /\ glog' = Append(glog, entry)
    /\ gi' = gi + 1
    /\ gpc' = "loop"
    /\ greqs' = <<>>
    /\ UNCHANGED gaddrs

\* except AttributeError: only printed; `result` is what it was, and
\* appending it raises UnboundLocalError when nothing was bound yet.
AttributeErrorCaught(entry) ==
    IF gresult = Unbound
    THEN /\ gpc' = "raised"
         /\ glog' = Append(glog, entry)
         /\ UNCHANGED <<gaddrs, gi, gresult, glocations, greqs>>
    ELSE Emit(gresult, entry)

\* geocode up to its return or to the call of fallback_geocode.
PA_Geocode ==
    /\ gpc = "loop"
    /\ gi <= Len(gaddrs)
    /\ LET a == gaddrs[gi]
       IN  CASE a.kind = "empty" ->
                  Emit(NullResult(gi), GeoEntry("null", <<>>, 0))
             [] a.kind = "nan" ->
                  Emit(ErrorResult(gi), GeoEntry("raised", <<>>, 0))
             [] a.kind = "number" ->
                  AttributeErrorCaught(GeoEntry("raised", <<>>, 0))
             [] a.kind = "text" ->
                  IF Candidates(a) = {}
                  THEN /\ gpc' = "osm"
                       /\ UNCHANGED <<gaddrs, gi, gresult, glocations,
                                      greqs, glog>>
                  ELSE \E r \in TopRows(a) :
                          IF LocalAccepts(a.sc[r])
                          THEN Emit(Match(gi, "database"),
                                    GeoEntry("database", <<>>, a.sc[r]))
                          ELSE /\ gpc' = "osm"
                               /\ UNCHANGED <<gaddrs, gi, gresult,
                                              glocations, greqs, glog>>
    /\ UNCHANGED notGeo

Req(svc, out) == [svc |-> svc, out |-> out]
GeoOutcomes == {"hit", "none", "error"}

\* geocode_osm: a result, nothing, or an exception (raise_for_status, the
\* connection), which leaves geocode and is caught in process_address.
G_Osm(out) ==
    /\ gpc = "osm"
    /\ LET reqs == Append(greqs, Req("osm", out))
       IN  CASE out = "hit" ->
                  Emit(Match(gi, "osm"), GeoEntry("osm", reqs, 0))
             [] out = "none" ->
                  /\ gpc' = "photon"
                  /\ greqs' = reqs
                  /\ UNCHANGED <<gaddrs, gi, gresult, glocations, glog>>
             [] out = "error" ->
                  Emit(ErrorResult(gi), GeoEntry("raised", reqs, 0))
    /\ UNCHANGED notGeo

\* geocode_photon, after geocode_osm gave nothing.
G_Photon(out) ==
    /\ gpc = "photon"
    /\ LET reqs == Append(greqs, Req("photon", out))
       IN  CASE out = "hit" ->
                  Emit(Match(gi, "photon"), GeoEntry("photon", reqs, 0))
             [] out = "none" ->
                  Emit(NullResult(gi), GeoEntry("null", reqs, 0))
             [] out = "error" ->
                  Emit(ErrorResult(gi), GeoEntry("raised", reqs, 0))
    /\ UNCHANGED notGeo

\* return pd.DataFrame(locations)
PA_Return ==
    /\ gpc = "loop"
    /\ gi > Len(gaddrs)
    /\ gpc' = "returned"
    /\ UNCHANGED <<gaddrs, gi, gresult, glocations, greqs, glog>>
    /\ UNCHANGED notGeo

GeoStart(pc) ==
    /\ gpc = pc
    /\ gaddrs = <<>>
    /\ gi = 1
    /\ gresult = Unbound
    /\ glocations = <<>>
    /\ greqs = <<>>
    /\ glog = <<>>
GeoParked == GeoStart("off")

GeoNext ==
    \/ /\ gpc = "idle"
       /\ \E n \in 0..MaxAddresses :
             \E addrs \in Columns(Addresses, n) : PA_Call(addrs)
    \/ PA_Geocode
    \/ \E out \in GeoOutcomes : G_Osm(out)
    \/ \E out \in GeoOutcomes : G_Photon(out)
    \/ PA_Return

(***************************************************************************)
(* LiveAgentClient.determine_sender_receiver (liveagent.py 163-172): who   *)
(* sent a message and who received it, from the acting user id, the owner  *)
(* of the ticket, the agent the ticket is assigned to and the agents cache *)
(* (a dict from agent id to agent name).                                   *)
(***************************************************************************)
SystemId == "system00"
UnknownAgent == "Unkown Agent"
UserIds == {SystemId, "a1", "a2", "u1"}
AgentIds == {SystemId, "a1", "a2", "??"}
AgentNames == {"Ann", "Bob"}
OwnerNames == {"Olga"}

\* Every dict from some of the ids to agent names.
AgentCaches == UNION {[ids -> AgentNames] : ids \in SUBSET {SystemId, "a1", "a2"}}

\* dict.get(key, default)
DictGet(d, key, default) == IF key \in DOMAIN d THEN d[key] ELSE default

\* Mutant: the cache is looked at before the system id.
SenderReceiverCacheFirst(cache, userid, owner_name, agentid) ==
    IF userid \in DOMAIN cache
    THEN <<cache[userid], "agent", owner_name, "client">>
    ELSE IF userid = SystemId
         THEN <<"system", "system", owner_name, "client">>
         ELSE <<owner_name, "client",
                DictGet(cache, agentid, UnknownAgent), "agent">>

determine_sender_receiver(cache, userid, owner_name, agentid) ==
    IF userid = SystemId
    THEN <<"system", "system", owner_name, "client">>
    ELSE IF userid \in DOMAIN cache
         THEN <<cache[userid], "agent", owner_name, "client">>
         ELSE <<owner_name, "client",
                DictGet(cache, agentid, UnknownAgent), "agent">>

NoCall == [userid |-> "", owner_name |-> "", agentid |-> ""]
NoOutput == <<"", "", "", "">>

\* One call on the client's cache as it is.
D_Call(userid, owner_name, agentid) ==
    /\ dpc \in {"idle", "done"}
    /\ dpc' = "done"
    /\ din' = [userid |-> userid, owner_name |-> owner_name,
               agentid |-> agentid]
    /\ dout' = determine_sender_receiver(dcache, userid, owner_name, agentid)
    /\ UNCHANGED dcache
    /\ UNCHANGED notDsr

DsrStart(pc, caches) ==
    /\ dpc = pc
    /\ dcache \in caches
    /\ din = NoCall
    /\ dout = NoOutput
DsrParked == DsrStart("off", {<<>>})

DsrNext ==
    \E userid \in UserIds, owner_name \in OwnerNames, agentid \in AgentIds :
        D_Call(userid, owner_name, agentid)

(***************************************************************************)
(* extract_and_load_chat_analysis (extract_chat_analysis.py 152-186): the  *)
(* ticket ids of the window are queried, chat_analysis (136-150) runs      *)
(* process_chat on them, then process_address, tag_viable and drop_cols,   *)
(* and merge (59-116) writes the frame.                                    *)
(***************************************************************************)
\* The rows of the frame process_chat returned: one per task whose frame
\* was not empty.
OutputRows == {t \in CTasks : ctask[t].pc = "done" /\ ctask[t].result # "empty"}

\* sql_query_bq(query): a failed query and an empty result are logged and
\* the run returns None; otherwise chat_analysis is called.
A_Query(n, ok) ==
    /\ apc = "idle"
    /\ IF ok /\ n > 0
       THEN apc' = "chat" /\ an' = n
       ELSE apc' = "returned" /\ an' = 0
    /\ UNCHANGED acause
    /\ UNCHANGED notEnrich

\* chat_analysis: process_chat(ticket_ids = results)
A_ProcessChat ==
    /\ apc = "chat"
    /\ C_Call(an)

\* process_address(ticket_messages_df): df['location'] of a frame without
\* columns raises KeyError, which leaves chat_analysis and the run.
A_Address ==
    /\ apc = "chat"
    /\ cpc = "returned"
    /\ IF OutputRows = {}
       THEN apc' = "raised" /\ acause' = "process_address"
       ELSE apc' = "viable" /\ UNCHANGED acause
    /\ UNCHANGED an
    /\ UNCHANGED notEnrich

\* tag_viable and drop_cols; tag_viable returns None when it could not read
\* the list of serviceable places, and drop_cols raises on None.
A_Viable(ok) ==
    /\ apc = "viable"
    /\ IF ok
       THEN apc' = "merge" /\ UNCHANGED acause
       ELSE apc' = "raised" /\ acause' = "tag_viable"
    /\ UNCHANGED an
    /\ UNCHANGED notEnrich

\* merge(table_name, ticket_messages_df), then the records are returned.
A_Merge(ok) ==
    /\ apc = "merge"
    /\ IF ok
       THEN apc' = "returned" /\ UNCHANGED acause
       ELSE apc' = "raised" /\ acause' = "merge"
    /\ UNCHANGED an
    /\ UNCHANGED notEnrich

EnrichStart(pc) ==
    /\ apc = pc
    /\ an = 0
    /\ acause = "none"
EnrichParked == EnrichStart("off")

EnrichNext ==
    \/ \E n \in 0..MaxChats, ok \in BOOLEAN : A_Query(n, ok)
    \/ A_ProcessChat
    \/ \E t \in CTasks : C_Enter(t)
    \/ \E t \in CTasks, outcome \in CreateOutcomes : C_Leave(t, outcome)
    \/ C_Return
    \/ A_Address
    \/ \E ok \in BOOLEAN : A_Viable(ok)
    \/ \E ok \in BOOLEAN : A_Merge(ok)

(***************************************************************************)
(* extract_and_load_logs (extraction_log.py 83-140): one try block that    *)
(* looks up the run time, queries the ids of the run and the existing ids  *)
(* of tickets and of messages, queries the tokens, sets the log message    *)
(* and appends the one-row frame to the run-log table; `except Exception`  *)
(* logs and raises again.                                                  *)
(***************************************************************************)
LogSteps == << "get_runtime", "get_from_run_tickets", "get_existing_tickets",
               "get_from_run_messages", "get_existing_messages",
               "get_total_tokens", "log_message", "load" >>

\* What a step can end with.  get_runtime reads res.iloc[0, 0] before it
\* tests res.empty, so a lookup without a row raises IndexError; a list of
\* several messages does not fit the one-row frame and raises ValueError.
StepEnds(step, errors) ==
    CASE step = "get_runtime" -> {"ok", "raised", "no_row"}
      [] step = "log_message" -> IF errors > 1 THEN {"too_long"} ELSE {"ok"}
      [] OTHER -> {"ok", "raised"}

\* Does this end leave the try block?
Raises(end) == end # "ok"

\* A warehouse table as the two id queries see it: the ids it holds, each
\* with whether its datetime_extracted lies in the window of the run.  The
\* id columns are "id" (tickets) and "ticket_id" (messages).
LogIds    == {"t1", "t2"}
IdTables  == UNION {[D -> BOOLEAN] : D \in SUBSET LogIds}
IdColumn(table) == IF table = "messages" THEN "ticket_id" ELSE "id"

\* get_from_run and get_existing: a frame of one column.
Frame(column, ids) == [columns |-> {column}, ids |-> ids]
get_from_run(tables, table) ==
    Frame(IdColumn(table), {i \in DOMAIN tables[table] : tables[table][i]})
get_existing(tables, table) ==
    Frame(IdColumn(table), DOMAIN tables[table])

\* Mutant: membership among the ids the frame holds.
InFrameValues(x, frame) == x \in frame.ids

\* `x in frame`: pandas looks x up among the column labels of the frame.
InFrame(x, frame) == x \in frame.columns

\* Lines 100-102 and 106-108: the counts of one table.
NoCounts == [new |-> -1, old |-> -1, total |-> -1]
CountsOf(tables, table) ==
    LET run      == get_from_run(tables, table)
        existing == get_existing(tables, table)
        new == Cardinality({i \in run.ids : ~InFrame(i, existing)})
        old == Cardinality({i \in run.ids : InFrame(i, existing)})
    IN  [new |-> new, old |-> old, total |-> new + old]

\* The counts are set right after the second query of a table returned.
StatsAfter(step) ==
    CASE step = "get_existing_tickets" ->
             [lstats EXCEPT !.tickets = CountsOf(ltables, "tickets")]
      [] step = "get_existing_messages" ->
             [lstats EXCEPT !.messages = CountsOf(ltables, "messages")]
      [] OTHER -> lstats

L_Call(errors, tickets, messages) ==
    /\ lpc \in {"idle", "returned", "raised"}
    /\ lcalls < MaxLogCalls
    /\ lcalls' = lcalls + 1
    /\ lpc' = "running"
    /\ lerrors' = errors
    /\ lstep' = 1
    /\ ldone' = {}
    /\ lfailed' = "none"
    /\ lbefore' = lrows
    /\ ltables' = [tickets |-> tickets, messages |-> messages]
    /\ lstats' = [tickets |-> NoCounts, messages |-> NoCounts]
    /\ UNCHANGED lrows
    /\ UNCHANGED notLog

\* The next step of the try block; the last one is the append.
L_Step(end) ==
    /\ lpc = "running"
    /\ end \in StepEnds(LogSteps[lstep], lerrors)
    /\ IF Raises(end)
       THEN /\ lpc' = "raised"
            /\ lfailed' = LogSteps[lstep]
            /\ UNCHANGED <<lstep, ldone, lrows, lstats>>
       ELSE /\ ldone' = ldone \cup {LogSteps[lstep]}
            /\ lstats' = StatsAfter(LogSteps[lstep])
            /\ UNCHANGED lfailed
            /\ IF lstep = Len(LogSteps)
               THEN lpc' = "returned" /\ lrows' = lrows + 1 /\ UNCHANGED lstep
               ELSE lpc' = "running" /\ lstep' = lstep + 1 /\ UNCHANGED lrows
    /\ UNCHANGED <<lcalls, lerrors, lbefore, ltables>>
    /\ UNCHANGED notLog

LogStart(pc) ==
    /\ lpc = pc
    /\ lcalls = 0
    /\ lerrors = 0
    /\ lstep = 1
    /\ ldone = {}
    /\ lfailed = "none"
    /\ lbefore = 0
    /\ lrows = 0
    /\ ltables = [tickets |-> <<>>, messages |-> <<>>]
    /\ lstats = [tickets |-> NoCounts, messages |-> NoCounts]
LogParked == LogStart("off")

LogNext ==
    \/ /\ lpc \in {"idle", "returned", "raised"}
       /\ \E errors \in 0..MaxErrors : \E tickets, messages \in IdTables :
              L_Call(errors, tickets, messages)
    \/ \E end \in {"ok", "raised", "no_row", "too_long"} : L_Step(end)

(***************************************************************************)
(* generate_schema (bq_utils.py 41-81).  A frame is given by its columns,  *)
(* each with its first value (df[column].iloc[0]) and its dtype kind.  A   *)
(* value is a scalar, a map (dict) or a list; a list holds scalars only or *)
(* maps only.  A column name is the path of keys that json_normalize joins *)
(* with dots.                                                              *)
(***************************************************************************)
FieldNames  == {"a", "custom_fields"}
\* dtype.kind of int64, object and datetime64 columns
ScalarKinds == {"i", "O", "M"}

Scalar(k) == [kind |-> "scalar", dtype |-> k]
MapOf(f)  == [kind |-> "map", items |-> f]
ListOf(q) == [kind |-> "list", elems |-> q]
\* What pandas puts where a row has no value for a column.
NaN       == Scalar("f")

Scalars     == {Scalar(k) : k \in ScalarKinds}
Maps(S)     == {MapOf(f) : f \in UNION {[D -> S] : D \in SUBSET FieldNames}}
Lists(S, lo) ==
    {ListOf(q) : q \in UNION {[1..n -> S] : n \in lo..MaxListLen}}

\* The values a field can hold: scalars, lists of scalars (the empty list
\* included), maps of those (the empty map included), maps that hold maps
\* and lists, and lists of maps.
FlatValues  == Scalars \cup Lists(Scalars, 0)
FlatMaps    == Maps(Scalars)
FieldValues == FlatValues \cup Maps(FlatValues \cup FlatMaps)
                   \cup Lists(FlatMaps, 1)

TYPE_MAPPING(kind) ==
    CASE kind = "i" -> "INTEGER"
      [] kind = "u" -> "NUMERIC"
      [] kind = "b" -> "BOOLEAN"
      [] kind = "f" -> "FLOAT"
      [] kind \in {"O", "S", "U"} -> "STRING"
      [] kind = "M" -> "DATETIME"
      [] OTHER -> "STRING"

FORCE_NULLABLE == {<<"custom_fields">>}

\* The dtype kind of a column that holds this value alone.
DtypeOf(v) == IF v.kind = "scalar" THEN v.dtype ELSE "O"

\* pd.json_normalize, one record: the keys that hold no map stay, a nested
\* map gives its own leaves under the joined name, and none when it is
\* empty.  The result is the set of <<column, value>> of the row.
RECURSIVE Flatten(_, _)
Flatten(items, prefix) ==
    LET Leaves(k) ==
            IF items[k].kind = "map"
            THEN Flatten(items[k].items, Append(prefix, k))
            ELSE {<<Append(prefix, k), items[k]>>}
    IN  UNION {Leaves(k) : k \in DOMAIN items}

RowOf(m) ==
    LET leaves == Flatten(m.items, <<>>)
    IN  [c \in {l[1] : l \in leaves} |->
            (CHOOSE l \in leaves : l[1] = c)[2]]

\* The dtype kind pandas gives a column built from these rows.
ColDtype(rows, c) ==
    LET having  == {i \in DOMAIN rows : c \in DOMAIN rows[i]}
        kinds   == {DtypeOf(rows[i][c]) : i \in having}
        missing == having # DOMAIN rows
    IN  IF Cardinality(kinds) = 1
        THEN LET k == CHOOSE x \in kinds : TRUE
             IN  IF ~missing THEN k
                 ELSE IF k = "i" THEN "f"
                 ELSE IF k = "b" THEN "O"
                 ELSE k
        ELSE IF kinds \subseteq {"i", "f"} THEN "f" ELSE "O"

\* pd.json_normalize(val) for a map (one row) or a list of maps (a row for
\* each), as generate_schema reads it: first value and dtype per column.
json_normalize(val) ==
    LET rows == IF val.kind = "map" THEN <<RowOf(val)>>
                ELSE [i \in DOMAIN val.elems |-> RowOf(val.elems[i])]
        cols == UNION {DOMAIN rows[i] : i \in DOMAIN rows}
    IN  [c \in cols |->
            [val   |-> IF c \in DOMAIN rows[1] THEN rows[1][c] ELSE NaN,
             dtype |-> ColDtype(rows, c)]]

NoFields == <<>>

\* Mutant: the force-nullable set is not looked at.
ModeIgnoresForce(column, val) ==
    IF val.kind = "list" THEN "REPEATED" ELSE "NULLABLE"

\* line 58-59
ModeOf(column, val) ==
    IF column \in FORCE_NULLABLE THEN "NULLABLE"
    ELSE IF val.kind = "list" THEN "REPEATED" ELSE "NULLABLE"

RECURSIVE generate_schema(_)
generate_schema(df) ==
    [column \in DOMAIN df |->
        LET val   == df[column].val
            dtype == df[column].dtype
            is_list_of_dicts ==
                /\ val.kind = "list"
                /\ Len(val.elems) > 0
                /\ val.elems[1].kind = "map"
            fields == IF val.kind = "map" \/ is_list_of_dicts
                      THEN generate_schema(json_normalize(val))
                      ELSE NoFields
            field_type == IF DOMAIN fields # {} THEN "RECORD"
                          ELSE IF dtype = "M" THEN "DATETIME"
                          ELSE TYPE_MAPPING(dtype)
        IN  [field_type |-> field_type,
             mode       |-> ModeOf(column, val),
             fields     |-> fields]]

\* A frame of one column, named by a key, whose first value is val.
FrameOfField(name, val) ==
    [c \in {<<name>>} |-> [val |-> val, dtype |-> DtypeOf(val)]]

NoFrame == <<>>

S_Call(name, val) ==
    /\ schframe' = FrameOfField(name, val)
    /\ schema' = generate_schema(FrameOfField(name, val))
    /\ schpc' = "done"
    /\ UNCHANGED notSch

\* The caller drops the frame and the schema.
S_Return ==
    /\ schpc = "done"
    /\ schpc' = "idle"
    /\ schframe' = NoFrame
    /\ schema' = NoFields
    /\ UNCHANGED notSch

SchStart(pc) ==
    /\ schpc = pc
    /\ schframe = NoFrame
    /\ schema = NoFields
SchParked == SchStart("off")

SchNext ==
    \/ /\ schpc = "idle"
       /\ \E name \in FieldNames : \E val \in FieldValues : S_Call(name, val)
    \/ S_Return

(***************************************************************************)
(* LiveAgentClient.load_agents_cache (liveagent.py 142-161) under          *)
(* Ticket.fetch_ticket_message (308-344).  A call runs without giving up   *)
(* the event loop from one await to the next: from its start to the await  *)
(* of get_agents (or of the first paginate when it loads nothing), from    *)
(* the answer of get_agents to the first paginate, and from the answer of  *)
(* one paginate to the next.                                               *)
(***************************************************************************)
MsgTasks == 1..NumMsgTasks

EmptyCache == [i \in {} |-> ""]
\* The agents table of the warehouse and the agents the remote lists; one
\* agent was renamed since the table was loaded.
WarehouseAgents == [i \in {"a1"} |-> "Ann"]
RemoteAgents    == [i \in {"a1", "a2"} |-> IF i = "a1" THEN "Anna" ELSE "Bob"]

\* What get_agents can give: paginate returns the pages it collected before
\* a client error, possibly none; any other error is raised.
LiveOutcomes == {{}, {"a1"}, {"a1", "a2"}}

\* for agent in agents_data: self.agents_cache[agent['id']] = name
CacheUpdate(cache, ids) ==
    [i \in DOMAIN cache \cup ids |->
        IF i \in ids THEN RemoteAgents[i] ELSE cache[i]]

IdleMsgTask == [pc |-> "absent", wh |-> "skipped", live |-> "not_called",
                after |-> EmptyCache, left |-> 0]

\* Lines 143-153: the lookup in the warehouse, when one is configured.
WarehouseLookup(ok) ==
    IF ~kconf THEN [wh |-> "none", cache |-> kcache]
    ELSE IF ok THEN [wh |-> "ok", cache |-> WarehouseAgents]
    ELSE [wh |-> "failed", cache |-> kcache]

\* fetch_ticket_message is called: `if not agents_cache` enters
\* load_agents_cache, which runs up to the await of get_agents; the second
\* try block (154-155) follows the first whatever the lookup did.
K_Call(t, n, ok) ==
    /\ ktask[t].pc = "absent"
    /\ IF DOMAIN kcache = {}
       THEN LET w == WarehouseLookup(ok)
            IN  /\ kcache' = w.cache
                /\ ktask' = [ktask EXCEPT ![t] =
                       [pc |-> "live", wh |-> w.wh, live |-> "called",
                        after |-> EmptyCache, left |-> n]]
       ELSE /\ ktask' = [ktask EXCEPT ![t] =
                            [IdleMsgTask EXCEPT !.pc = "fetching", !.left = n]]
            /\ UNCHANGED kcache
    /\ UNCHANGED kconf
    /\ UNCHANGED notCache

\* get_agents answered: lines 156-161, the return of load_agents_cache, and
\* the first paginate of the ticket loop is awaited.
K_Live(t, raised, ids) ==
    /\ ktask[t].pc = "live"
    /\ kcache' = IF raised THEN EmptyCache ELSE CacheUpdate(kcache, ids)
    /\ ktask' = [ktask EXCEPT ![t].pc = "fetching",
                              ![t].live = IF raised THEN "raised" ELSE "data",
                              ![t].after = kcache']
    /\ UNCHANGED kconf
    /\ UNCHANGED notCache

\* The messages of a ticket arrived: the names are resolved from the cache
\* as it is, and the next ticket is asked for.
K_Messages(t) ==
    /\ ktask[t].pc = "fetching"
    /\ ktask' = [ktask EXCEPT ![t].left = @ - 1,
                              ![t].pc = IF ktask[t].left = 1 THEN "done"
                                        ELSE "fetching"]
    /\ UNCHANGED <<kconf, kcache>>
    /\ UNCHANGED notCache

CacheStart(pc, confs) ==
    /\ kconf \in confs
    /\ kcache = EmptyCache
    /\ ktask = [t \in MsgTasks |-> [IdleMsgTask EXCEPT !.pc = pc]]
CacheParked == CacheStart("off", {FALSE})

CacheNext ==
    \E t \in MsgTasks :
        \/ \E n \in 1..MaxTickets : \E ok \in BOOLEAN : K_Call(t, n, ok)
        \/ \E ids \in LiveOutcomes : K_Live(t, FALSE, ids)
        \/ K_Live(t, TRUE, {})
        \/ K_Messages(t)

(***************************************************************************)
(* The ticket loop of Ticket.fetch_ticket_message (liveagent.py 327-432),  *)
(* with insert_to_bq = False as extract_and_load_ticket_messages calls it. *)
(* A message group is [id, userid, keyed, messages]: keyed tells whether   *)
(* the group has a 'messages' key at all.                                  *)
(***************************************************************************)
None == "None"

\* The k-th ticket of the payload; tickets differ in owner and agent.
TicketOf(k) == [id |-> k,
                owner_name |-> IF k % 2 = 1 THEN "Olga" ELSE "Omar",
                agentid |-> IF k % 2 = 1 THEN "a1" ELSE "??"]

Leaf1 == [id |-> "m1", userid |-> "a1"]
Leaf2 == [id |-> "m2", userid |-> "u2"]

\* The shapes of a group: without the key, with an empty list, with one
\* nested message and with two.
GroupShapes ==
    { [userid |-> SystemId, keyed |-> FALSE, messages |-> <<>>],
      [userid |-> "u1", keyed |-> TRUE, messages |-> <<>>],
      [userid |-> "a1", keyed |-> TRUE, messages |-> <<Leaf1>>],
      [userid |-> "u1", keyed |-> TRUE, messages |-> <<Leaf2, Leaf1>>] }

\* The groups paginate can return for one ticket.
TicketData == UNION {[1..n -> GroupShapes] : n \in 0..MaxGroups}

\* agents_cache of the client while the loop runs.
LoadedCache == [i \in {"a1"} |-> "Ann"]

\* Lines 346-380: the row of the group, names resolved for its userid.
GroupRow(ticket, gid, group) ==
    LET sr == determine_sender_receiver(LoadedCache, group.userid,
                                        ticket.owner_name, ticket.agentid)
    IN  [ticket_id |-> ticket.id, owner_name |-> ticket.owner_name,
         agentid |-> ticket.agentid,
         agent_name |-> DictGet(LoadedCache, ticket.agentid, "Unknown Agent"),
         id |-> gid, userid |-> group.userid,
         message_id |-> None, message_userid |-> None,
         sender_name |-> sr[1], sender_type |-> sr[2],
         receiver_name |-> sr[3], receiver_type |-> sr[4]]

\* Lines 386-406: a copy of the row of the group with the fields of the
\* nested message, names resolved for the userid of the nested message.
LeafRow(ticket, gid, group, leaf) ==
    LET sr == determine_sender_receiver(LoadedCache, leaf.userid,
                                        ticket.owner_name, ticket.agentid)
    IN  [GroupRow(ticket, gid, group) EXCEPT
            !.message_id = leaf.id, !.message_userid = leaf.userid,
            !.sender_name = sr[1], !.sender_type = sr[2],
            !.receiver_name = sr[3], !.receiver_type = sr[4]]

\* Mutant: the row of the group is emitted ahead of its nested messages.
RowsOfGroupWithParent(ticket, gid, group) ==
    <<GroupRow(ticket, gid, group)>> \o
        [l \in DOMAIN group.messages |->
            LeafRow(ticket, gid, group, group.messages[l])]

\* Lines 384-411: what one group appends to processed_messages.
RowsOfGroup(ticket, gid, group) ==
    IF group.keyed /\ group.messages # <<>>
    THEN [l \in 1..Len(group.messages) |->
             LeafRow(ticket, gid, group, group.messages[l])]
    ELSE <<GroupRow(ticket, gid, group)>>

\* The rows of the groups j..Len(data) of a ticket, in order.
RECURSIVE RowsOfTicket(_, _, _, _)
RowsOfTicket(ticket, k, data, j) ==
    IF j > Len(data) THEN <<>>
    ELSE RowsOfGroup(ticket, <<k, j>>, data[j])
             \o RowsOfTicket(ticket, k, data, j + 1)

\* Lines 382 and 408: the user ids of the groups and of their messages.
UserIdsOf(data) ==
    {data[j].userid : j \in DOMAIN data}
        \cup UNION {{data[j].messages[l].userid : l \in DOMAIN data[j].messages}
                        : j \in DOMAIN data}

F_Call(n) ==
    /\ fpc = "idle"
    /\ fpc' = "loop"
    /\ ftickets' = [k \in 1..n |-> TicketOf(k)]
    /\ fdata' = <<>>
    /\ frows' = <<>>
    /\ UNCHANGED fuserids
    /\ UNCHANGED notFlat

\* One turn of the ticket loop: paginate returns the groups of the ticket
\* and every group is flattened; after the last ticket the frame of the
\* rows is returned.
F_Ticket(data) ==
    /\ fpc = "loop"
    /\ LET k == Len(fdata) + 1
       IN  /\ fdata' = Append(fdata, data)
           /\ frows' = frows \o RowsOfTicket(ftickets[k], k, data, 1)
           /\ fuserids' = fuserids \cup UserIdsOf(data)
           /\ fpc' = IF k = Len(ftickets) THEN "returned" ELSE "loop"
    /\ UNCHANGED ftickets
    /\ UNCHANGED notFlat

\* paginate raised: `except Exception` logs, and the frame of the rows
\* collected so far is returned.
F_Raised ==
    /\ fpc = "loop"
    /\ fpc' = "returned"
    /\ UNCHANGED <<ftickets, fdata, frows, fuserids>>
    /\ UNCHANGED notFlat

FlatStart(pc) ==
    /\ fpc = pc
    /\ ftickets = <<>>
    /\ fdata = <<>>
    /\ frows = <<>>
    /\ fuserids = {}
FlatParked == FlatStart("off")

FlatNext ==
    \/ \E n \in 1..MaxTickets : F_Call(n)
    \/ /\ fpc = "loop"
       /\ \E data \in TicketData : F_Ticket(data)
    \/ F_Raised

(***************************************************************************)
(* fallback_geocode: the pause before the external geocoders.  The clock   *)
(* counts quarters of a second, so that 1.25 s is 5.  process_address      *)
(* calls geocode for one address after the other and catches what a        *)
(* request raises, so the calls of fallback_geocode follow each other in   *)
(* one process, with the module global time_osm kept between them.         *)
(***************************************************************************)
Gap == 5
Waits == 0..MaxWait
Durations == 0..MaxDur

\* time_osm is declared `global` and assigned nowhere at module level.
NoTime == [bound |-> FALSE, at |-> 0]
TimeAt(t) == [bound |-> TRUE, at |-> t]

ExtCall(svc, start, end, out) ==
    [svc |-> svc, start |-> start, end |-> end, out |-> out]

\* delay = 1.25 - (time() - time_osm); sleep(delay) if delay > 0.  The
\* NameError of an unbound time_osm is swallowed by `except Exception: pass`.
DelayAt(now, last) ==
    IF last.bound /\ Gap - (now - last.at) > 0
    THEN Gap - (now - last.at)
    ELSE 0

\* fallback_geocode(address), `wait` after the previous call of it ended,
\* up to the request to the primary geocoder.
T_Call(wait) ==
    /\ tpc = "idle"
    /\ tn < MaxFallbacks
    /\ tn' = tn + 1
    /\ tnow' = tnow + wait + DelayAt(tnow + wait, time_osm)
    /\ tpc' = "osm"
    /\ UNCHANGED <<time_osm, tcalls>>
    /\ UNCHANGED notThr

\* osm_result = geocode_osm(_address); time_osm = time().  An exception of
\* the request leaves fallback_geocode before the assignment.
T_Osm(out, dur) ==
    /\ tpc = "osm"
    /\ tcalls' = Append(tcalls, ExtCall("osm", tnow, tnow + dur, out))
    /\ tnow' = tnow + dur
    /\ time_osm' = IF out = "error" THEN time_osm ELSE TimeAt(tnow + dur)
    /\ tpc' = IF out = "none" THEN "photon" ELSE "idle"
    /\ UNCHANGED tn
    /\ UNCHANGED notThr

\* photon_result = geocode_photon(_address), right after the primary
\* geocoder returned nothing.
T_Photon(out, dur) ==
    /\ tpc = "photon"
    /\ tcalls' = Append(tcalls, ExtCall("photon", tnow, tnow + dur, out))
    /\ tnow' = tnow + dur
    /\ tpc' = "idle"
    /\ UNCHANGED <<time_osm, tn>>
    /\ UNCHANGED notThr

ThrStart(pc) ==
    /\ tpc = pc
    /\ tnow = 0
    /\ time_osm = NoTime
    /\ tcalls = <<>>
    /\ tn = 0
ThrParked == ThrStart("off")

ThrNext ==
    \/ /\ tpc = "idle"
       /\ \E wait \in Waits : T_Call(wait)
    \/ /\ tpc = "osm"
       /\ \E out \in GeoOutcomes, dur \in Durations : T_Osm(out, dur)
    \/ /\ tpc = "photon"
       /\ \E out \in GeoOutcomes, dur \in Durations : T_Photon(out, dur)

(***************************************************************************)
(* Specifications                                                          *)
(***************************************************************************)
\* Runs executed one at a time, the way the scheduler calls the loader.
MergeInit == MergeStart({"tickets", "convo"}, {FALSE}) /\ PagParked /\ EpParked /\ ChatParked
             /\ WinParked
             /\ GeoParked
             /\ DsrParked
             /\ EnrichParked
             /\ LogParked
             /\ SchParked
             /\ CacheParked
             /\ FlatParked
             /\ ThrParked
SpecMerge == MergeInit /\ [][MergeNext]_vars

\* Runs executed one at a time, of either loader, next to runs that the
\* caller lets overlap.  The overlapping runs are those of the conversation
\* analysis, whose batches have one row for each ticket id; the statements
\* on the staging table are the same in the two loaders.
RunsInit  == /\ \/ MergeStart({"tickets", "convo"}, {FALSE})
                \/ MergeStart({"convo"}, {TRUE})
             /\ PagParked /\ EpParked /\ ChatParked /\ WinParked
             /\ GeoParked /\ DsrParked /\ EnrichParked /\ LogParked
             /\ SchParked /\ CacheParked /\ FlatParked
             /\ ThrParked
SpecRuns  == RunsInit /\ [][MergeNext]_vars

\* The event loop keeps running a coroutine that can take a step, and every
\* request gets its response or its error.
PagInit   == PagStart("single") /\ MergeParked /\ EpParked /\ ChatParked
             /\ WinParked
             /\ GeoParked
             /\ DsrParked
             /\ EnrichParked
             /\ LogParked
             /\ SchParked
             /\ CacheParked
             /\ FlatParked
             /\ ThrParked
SpecPag   == PagInit /\ [][PagNext]_vars /\ WF_vars(PagNext)

GateInit  == PagStart("concurrent") /\ MergeParked /\ EpParked /\ ChatParked
             /\ WinParked
             /\ GeoParked
             /\ DsrParked
             /\ EnrichParked
             /\ LogParked
             /\ SchParked
             /\ CacheParked
             /\ FlatParked
             /\ ThrParked
SpecGate  == GateInit /\ [][GateNext]_vars

\* One run of one entry point.
EpInit    == EpStart("ready") /\ MergeParked /\ PagParked /\ ChatParked
             /\ WinParked
             /\ GeoParked
             /\ DsrParked
             /\ EnrichParked
             /\ LogParked
             /\ SchParked
             /\ CacheParked
             /\ FlatParked
             /\ ThrParked
SpecEp    == EpInit /\ [][EpNext]_vars

\* One call of process_chat; the event loop runs whatever can run.
ChatInit  == ChatStart("idle") /\ MergeParked /\ PagParked /\ EpParked
             /\ WinParked
             /\ GeoParked
             /\ DsrParked
             /\ EnrichParked
             /\ LogParked
             /\ SchParked
             /\ CacheParked
             /\ FlatParked
             /\ ThrParked
SpecChat  == ChatInit /\ [][ChatNext]_vars /\ WF_vars(ChatNext)

\* Scheduled runs, the first at any of the sample times.
WinInit   == WinStart("rolling", SampleTimes) /\ MergeParked /\ PagParked
             /\ EpParked /\ ChatParked
             /\ GeoParked
             /\ DsrParked
             /\ EnrichParked
             /\ LogParked
             /\ SchParked
             /\ CacheParked
             /\ FlatParked
             /\ ThrParked
SpecWin   == WinInit /\ [][WinNext]_vars

\* Backfills for any of the sample dates.
BackfillInit == WinStart("backfill", {Origin}) /\ MergeParked /\ PagParked
                /\ EpParked /\ ChatParked
             /\ GeoParked
             /\ DsrParked
             /\ EnrichParked
             /\ LogParked
             /\ SchParked
             /\ CacheParked
             /\ FlatParked
             /\ ThrParked
SpecBackfill == BackfillInit /\ [][BackfillNext]_vars

\* set_filter on the change field, for any of the sample times.
ChangedInit == WinStart("changed", {Origin}) /\ MergeParked /\ PagParked
               /\ EpParked /\ ChatParked
             /\ GeoParked
             /\ DsrParked
             /\ EnrichParked
             /\ LogParked
             /\ SchParked
             /\ CacheParked
             /\ FlatParked
             /\ ThrParked
SpecChanged == ChangedInit /\ [][ChangedNext]_vars

\* One call of process_address on any short column of addresses.
GeoInit   == GeoStart("idle") /\ MergeParked /\ PagParked /\ EpParked
             /\ ChatParked /\ WinParked
             /\ DsrParked
             /\ EnrichParked
             /\ LogParked
             /\ SchParked
             /\ CacheParked
             /\ FlatParked
             /\ ThrParked
SpecGeo   == GeoInit /\ [][GeoNext]_vars

\* Calls of determine_sender_receiver on any agents cache.
DsrInit   == DsrStart("idle", AgentCaches) /\ MergeParked /\ PagParked
             /\ EpParked /\ ChatParked /\ WinParked /\ GeoParked
             /\ EnrichParked
             /\ LogParked
             /\ SchParked
             /\ CacheParked
             /\ FlatParked
             /\ ThrParked
SpecDsr   == DsrInit /\ [][DsrNext]_vars

\* One enrichment run, process_chat inside it.
EnrichInit == EnrichStart("idle") /\ ChatStart("idle") /\ MergeParked
              /\ PagParked /\ EpParked /\ WinParked /\ GeoParked
              /\ DsrParked
             /\ LogParked
             /\ SchParked
             /\ CacheParked
             /\ FlatParked
             /\ ThrParked
SpecEnrich == EnrichInit /\ [][EnrichNext]_vars

\* Calls of extract_and_load_logs, one after the other.
LogInit   == LogStart("idle") /\ MergeParked /\ PagParked /\ EpParked
             /\ ChatParked /\ WinParked /\ GeoParked /\ DsrParked
             /\ EnrichParked
             /\ SchParked
             /\ CacheParked
             /\ FlatParked
             /\ ThrParked
SpecLog   == LogInit /\ [][LogNext]_vars

\* Calls of generate_schema on a frame of one field.
SchInit   == SchStart("idle") /\ MergeParked /\ PagParked /\ EpParked
             /\ ChatParked /\ WinParked /\ GeoParked /\ DsrParked
             /\ EnrichParked /\ LogParked
             /\ CacheParked
             /\ FlatParked
             /\ ThrParked
SpecSch   == SchInit /\ [][SchNext]_vars

\* The message fetches started on one client, with and without a warehouse.
CacheInit == CacheStart("absent", BOOLEAN) /\ MergeParked /\ PagParked
             /\ EpParked /\ ChatParked /\ WinParked /\ GeoParked
             /\ DsrParked /\ EnrichParked /\ LogParked /\ SchParked
             /\ FlatParked
             /\ ThrParked
SpecCache == CacheInit /\ [][CacheNext]_vars

\* One call of fetch_ticket_message, ticket by ticket.
FlatInit  == FlatStart("idle") /\ MergeParked /\ PagParked /\ EpParked
             /\ ChatParked /\ WinParked /\ GeoParked /\ DsrParked
             /\ EnrichParked /\ LogParked /\ SchParked /\ CacheParked
             /\ ThrParked
SpecFlat  == FlatInit /\ [][FlatNext]_vars

ThrInit   == ThrStart("idle") /\ MergeParked /\ PagParked /\ EpParked
             /\ ChatParked /\ WinParked /\ GeoParked /\ DsrParked
             /\ EnrichParked /\ LogParked /\ SchParked /\ CacheParked
             /\ FlatParked
SpecThr   == ThrInit /\ [][ThrNext]_vars

(***************************************************************************)
(* C1. Merge-upsert is idempotent: the first run of a behaviour starts     *)
(* from the empty target; when it completes and the next run carries the   *)
(* same batch (a key may occur in it more than once), the target the       *)
(* second run leaves behind has the rows, and the row counts, the first    *)
(* run left.  Runs are executed one at a time.                             *)
(***************************************************************************)
SecondRunEnded(r) ==
    /\ mrun[r].num = 2
    /\ mrun[r].pc \in {"done", "failed"}
    /\ mfirst.ended /\ mfirst.outcome = "done"
    /\ mrun[r].batch = mfirst.batch

C1_MergeIdempotent ==
    \A r \in MSlots : SecondRunEnded(r) => target = mfirst.after

\* Both runs of the same batch completed, and the target is not empty.
C1_Witness ==
    \E r \in MSlots :
        /\ SecondRunEnded(r)
        /\ mrun[r].pc = "done"
        /\ TableSize(target) > 0
        /\ target = mfirst.after

C3_Safe(t) ==
    LET f == ptask[t]
    IN  /\ Len(f.reqs) <= f.maxp
        /\ \A i \in 1..Len(f.reqs) : f.reqs[i] = i
        /\ Len(f.reqs) - f.got \in {0, 1}
        /\ (Len(f.reqs) - f.got = 1) <=> (f.pc = "inflight")

C3_RequestStep(t) ==
    ptask'[t].reqs # ptask[t].reqs
        => /\ ptask[t].got = Len(ptask[t].reqs)
           /\ ~ptask[t].sawEmpty

C3_PaginateTerminates ==
    /\ [](\A t \in PTasks : C3_Safe(t))
    /\ [][\A t \in PTasks : C3_RequestStep(t)]_vars
    /\ \A t \in PTasks :
          (ptask[t].pc # "idle") ~> (ptask[t].pc \in {"returned", "raised"})

\* A fetch that returned on its second page, an empty one, with max_pages
\* not yet used up.
C3_Witness ==
    \E t \in PTasks :
        /\ ptask[t].pc = "returned"
        /\ ptask[t].sawEmpty
        /\ ptask[t].reqs = <<1, 2>>
        /\ ptask[t].maxp > 2

(***************************************************************************)
(* C4 (as amended). With no transport error, when paginate has returned:   *)
(* the pages with records it fetched number min(ceil(N/P), max_pages), and *)
(* the requests it issued number min(ceil(N/P) + 1, max_pages): the end of *)
(* the listing is only seen on one further, empty page.                    *)
(***************************************************************************)
ReturnedClean(t) ==
    /\ ptask[t].pc = "returned"
    /\ ptask[t].failedAt = 0

C4_PagesFetched ==
    \A t \in PTasks :
        ReturnedClean(t) =>
            LET f == ptask[t]
                full == CeilDiv(f.total, f.per)
            IN  /\ f.page - 1 = Min(full, f.maxp)
                /\ Len(f.reqs) = Min(full + 1, f.maxp)

\* C4 as stated: the requests issued number min(ceil(N/P), max_pages).
C4_RequestsAsStated ==
    \A t \in PTasks :
        ReturnedClean(t) =>
            Len(ptask[t].reqs)
                = Min(CeilDiv(ptask[t].total, ptask[t].per), ptask[t].maxp)

\* Three records in pages of two, max_pages = 3: two pages of records and
\* a third, empty one.
C4_Witness ==
    \E t \in PTasks :
        /\ ReturnedClean(t)
        /\ ptask[t].total = 3 /\ ptask[t].per = 2 /\ ptask[t].maxp = 3
        /\ Len(ptask[t].data) = 3
        /\ Len(ptask[t].reqs) = 3

(***************************************************************************)
(* C5. Once the request for page k failed with a client error, paginate    *)
(* has returned (it raised nothing), its result is the records of pages    *)
(* 1..k-1 in page order, and the requests it ever issued are those for     *)
(* pages 1..k: page k is not asked for again, nor any later page.          *)
(***************************************************************************)
RECURSIVE PagesThrough(_, _, _)
PagesThrough(total, per, k) ==
    IF k <= 0 THEN <<>>
    ELSE PagesThrough(total, per, k - 1) \o PageRecords(total, per, k)

C5_ClientErrorKeepsPartial ==
    \A t \in PTasks :
        ptask[t].failedAt # 0 =>
            LET f == ptask[t]
            IN  /\ f.pc = "returned"
                /\ f.data = PagesThrough(f.total, f.per, f.failedAt - 1)
                /\ f.reqs = [i \in 1..f.failedAt |-> i]

\* The second page failed after a first page of two records.
C5_Witness ==
    \E t \in PTasks :
        /\ ptask[t].failedAt = 2
        /\ ptask[t].pc = "returned"
        /\ ptask[t].data = <<1, 2>>

(***************************************************************************)
(* C7. At most two page requests are in flight over all the fetches        *)
(* started on one client.                                                  *)
(***************************************************************************)
C7_SharedGate == Cardinality(InFlight) <= SemSize

(***************************************************************************)
(* C6. When the ping failed (anything but a 200), the run has made no      *)
(* remote call after it and no warehouse operation, whichever entry point  *)
(* it is; it ends by returning None.                                       *)
(***************************************************************************)
PingFailed == ep.ping \in PingOutcomes /\ ~PingSuccess(ep.ping)

C6_NoWorkAfterFailedPing ==
    PingFailed =>
        /\ ep.log = <<>>
        /\ ep.pc \in {"pinged", "returned"}
        /\ ep.pc = "returned" => ep.result = "none"

\* Each entry point has ended after a failed ping (one predicate per entry
\* would do; the messages entry is the one with the most work to skip).
C6_Witness ==
    /\ ep.entry = "messages"
    /\ ep.ping = "client_error"
    /\ ep.pc = "returned"

(***************************************************************************)
(* C8. Whatever the number of selected ticket ids, at most 5 tasks are     *)
(* inside the gated section at any moment, every permit taken is held by a *)
(* task inside, and every task that waits gets in and every task inside    *)
(* gets out, having given its permit back, whether it produced a row or    *)
(* failed.                                                                 *)
(***************************************************************************)
C8_GateBound ==
    /\ Cardinality(Inside) <= ChatGateSize
    /\ cpermits = ChatGateSize - Cardinality(Inside)

\* A task gets to "done" only from inside the gate, and inside only from
\* waiting for it.
C8_TaskSteps ==
    \A t \in CTasks :
        ctask'[t].pc # ctask[t].pc =>
            <<ctask[t].pc, ctask'[t].pc>> \in
                {<<"absent", "waiting">>, <<"waiting", "inside">>,
                 <<"inside", "done">>}

C8_ChatGate ==
    /\ []C8_GateBound
    /\ [][C8_TaskSteps]_vars
    /\ (cpc = "gathering") ~>
          (/\ \A t \in CTasks : t <= cn => ctask[t].pc = "done"
           /\ cpermits = ChatGateSize)

\* The gate is full, a task is kept waiting, and it is more than 5 ids.
C8_Witness ==
    /\ cn > ChatGateSize
    /\ Cardinality(Inside) = ChatGateSize
    /\ Waiting # {}

(***************************************************************************)
(* C9. The rolling windows of a run at T and of the run at T + 6h share no *)
(* instant and leave no gap: the first ends exactly one second before the  *)
(* second starts, and each window starts before it ends.                   *)
(***************************************************************************)
ConsecutiveRolling ==
    /\ wprev.field = "date_changed"
    /\ wcur.field = "date_changed"
    /\ ToSeconds(wcur.ref) = ToSeconds(wprev.ref) + 6 * 3600

C9_WindowsContiguous ==
    ConsecutiveRolling =>
        /\ ToSeconds(wprev.start) < ToSeconds(wprev.end)
        /\ ToSeconds(wcur.start) < ToSeconds(wcur.end)
        /\ ToSeconds(wprev.end) < ToSeconds(wcur.start)
        /\ ToSeconds(wprev.end) + 1 = ToSeconds(wcur.start)

\* Two consecutive windows on the two sides of a new year.
C9_Witness ==
    /\ ConsecutiveRolling
    /\ wprev.end = Stamp(2024, 12, 31, 23, 59, 59)
    /\ wcur.start = Stamp(2025, 1, 1, 0, 0, 0)

(***************************************************************************)
(* C10. With the creation field the window is the whole calendar month of  *)
(* the reference date, from its first day 00:00:00 to its last day         *)
(* 23:59:59, whichever the day and whatever the length of the month;       *)
(* 2025-05-15 gives 2025-05-01 00:00:00 to 2025-05-31 23:59:59.            *)
(***************************************************************************)
LastDayOf(y, mo) ==
    CASE mo \in {1, 5, 12} -> 31
      [] mo = 4 -> 30
      [] mo = 2 -> IF y = 2024 THEN 29 ELSE 28
      [] mo = 3 -> 31

C10_BackfillMonth ==
    wcur.field = "date_created" =>
        /\ wcur.start = Stamp(wcur.ref.y, wcur.ref.mo, 1, 0, 0, 0)
        /\ wcur.end = Stamp(wcur.ref.y, wcur.ref.mo,
                            LastDayOf(wcur.ref.y, wcur.ref.mo), 23, 59, 59)
        /\ PlusSeconds(wcur.end, 1).d = 1
        /\ (wcur.ref.y = 2025 /\ wcur.ref.mo = 5 /\ wcur.ref.d = 15) =>
              /\ wcur.start = Stamp(2025, 5, 1, 0, 0, 0)
              /\ wcur.end = Stamp(2025, 5, 31, 23, 59, 59)

\* The reference date is the last day of a 29-day month, late in the day.
C10_Witness ==
    /\ wcur.field = "date_created"
    /\ wcur.ref = Stamp(2024, 2, 29, 23, 59, 59)
    /\ wcur.end = Stamp(2024, 2, 29, 23, 59, 59)

(***************************************************************************)
(* C11. With the change field the window of a reference time t starts at   *)
(* t floored to the hour and ends six hours less one second later;         *)
(* 2025-07-08 15:02:33 gives 2025-07-08 15:00:00 to 2025-07-08 20:59:59.   *)
(***************************************************************************)
DirectChanged == wmode = "changed" /\ wcur.field = "date_changed"

C11_ChangedWindow ==
    DirectChanged =>
        /\ wcur.start = Stamp(wcur.ref.y, wcur.ref.mo, wcur.ref.d,
                              wcur.ref.h, 0, 0)
        /\ ToSeconds(wcur.end) = ToSeconds(wcur.start) + 6 * 3600 - 1
        /\ wcur.end.d \in 1..31 /\ wcur.end.mo \in 1..12
        /\ wcur.end.mi = 59 /\ wcur.end.s = 59
        /\ wcur.end.h = (wcur.ref.h + 5) % 24
        /\ wcur.ref = Stamp(2025, 7, 8, 15, 2, 33) =>
              /\ wcur.start = Stamp(2025, 7, 8, 15, 0, 0)
              /\ wcur.end = Stamp(2025, 7, 8, 20, 59, 59)

\* The documented example has been computed.
C11_Witness ==
    /\ DirectChanged
    /\ wcur.ref = Stamp(2025, 7, 8, 15, 2, 33)
    /\ wcur.end = Stamp(2025, 7, 8, 20, 59, 59)

(***************************************************************************)
(* C12. When the best local candidate of an address scores 0.1 or more,    *)
(* geocode makes no external request, neither to the primary nor to the    *)
(* secondary geocoder, and returns that local match with the gazetteer as  *)
(* its source.                                                             *)
(***************************************************************************)
LocalHit(a) ==
    /\ a.kind = "text"
    /\ Candidates(a) # {}
    /\ \E r \in Candidates(a) : a.sc[r] >= 10

C12_LocalMatchNoExternal ==
    /\ \A i \in 1..Len(glog) :
          LocalHit(gaddrs[i]) =>
              /\ glog[i].reqs = <<>>
              /\ glog[i].out = "database"
              /\ glog[i].top >= 10
              /\ \A r \in Candidates(gaddrs[i]) : gaddrs[i].sc[r] <= glog[i].top
              /\ glocations[i] = Match(i, "database")
    /\ (gpc \in {"osm", "photon"} \/ greqs # <<>>) => ~LocalHit(gaddrs[gi])

\* An address whose best candidate scores exactly 0.1 has been resolved
\* locally, after an address that went to the external geocoders.
C12_Witness ==
    /\ Len(glog) = 2
    /\ glog[1].reqs # <<>>
    /\ LocalHit(gaddrs[2])
    /\ glog[2].top = 10
    /\ glog[2].out = "database"

(***************************************************************************)
(* C13. For an address with no local candidate or a best local score under *)
(* 0.1 the external chain runs in fixed order: the primary geocoder first, *)
(* the secondary only after the primary gave no result; the first result   *)
(* is returned with its source, and null is returned when neither of them  *)
(* produced a result.                                                      *)
(***************************************************************************)
NeedsExternal(a) == a.kind = "text" /\ ~LocalHit(a)

NoHit(reqs) == \A k \in 1..Len(reqs) : reqs[k].out # "hit"

C13_ExternalChain ==
    \A i \in 1..Len(glog) :
        NeedsExternal(gaddrs[i]) =>
            LET reqs == glog[i].reqs
            IN  /\ Len(reqs) \in 1..2
                /\ reqs[1].svc = "osm"
                /\ Len(reqs) = 2 =>
                      reqs[2].svc = "photon" /\ reqs[1].out = "none"
                /\ reqs[Len(reqs)].out = "hit" =>
                      /\ glog[i].out = reqs[Len(reqs)].svc
                      /\ glocations[i] = Match(i, reqs[Len(reqs)].svc)
                /\ NoHit(reqs) =>
                      glog[i].out = "null" /\ glocations[i] = NullResult(i)

(***************************************************************************)
(* C17. Geocoding errors are isolated per address: an address whose        *)
(* geocoding raised, whatever the error, gets a result of its own with     *)
(* null coordinates and an error annotation, never the result of another   *)
(* address; the loop goes on, and process_address returns one result per   *)
(* row, in the order of the rows.                                          *)
(***************************************************************************)
C17_ErrorsIsolated ==
    /\ gpc # "raised"
    /\ \A i \in 1..Len(glocations) :
          /\ glocations[i].for = i
          /\ glog[i].out = "raised" => glocations[i] = ErrorResult(i)
    /\ gpc = "returned" => Len(glocations) = Len(gaddrs)

(***************************************************************************)
(* C14. determine_sender_receiver answers for every acting user id and     *)
(* every agents cache, and the answer is fixed by them: the sender is the  *)
(* system when the acting id is the reserved system id, cached or not; an  *)
(* agent when the id is in the cache; the client otherwise.  In the first  *)
(* two cases the receiver is the owner of the ticket as client, in the     *)
(* last the assigned agent, or the unknown-agent sentinel when the         *)
(* assigned id is not cached, as agent.                                    *)
(***************************************************************************)
C14_SenderReceiver ==
    dpc = "done" =>
        /\ din.userid = "system00" =>
              dout = <<"system", "system", din.owner_name, "client">>
        /\ (din.userid # "system00" /\ din.userid \in DOMAIN dcache) =>
              dout = <<dcache[din.userid], "agent", din.owner_name, "client">>
        /\ (din.userid # "system00" /\ din.userid \notin DOMAIN dcache) =>
              /\ dout[1] = din.owner_name
              /\ dout[2] = "client"
              /\ dout[4] = "agent"
              /\ din.agentid \in DOMAIN dcache => dout[3] = dcache[din.agentid]
              /\ din.agentid \notin DOMAIN dcache => dout[3] = "Unkown Agent"
        /\ dout[2] \in {"system", "agent", "client"}

\* The system id is also a key of the cache, and the sender is the system.
C14_Witness ==
    /\ dpc = "done"
    /\ din.userid = "system00"
    /\ "system00" \in DOMAIN dcache
    /\ dout[2] = "system"

(***************************************************************************)
(* C15. Every selected conversation whose extraction failed, for whatever  *)
(* reason, has a row in the enrichment output, with null fields and the    *)
(* token count of the prompt; so it is when every extraction failed.       *)
(***************************************************************************)
C15_FailedRowKept ==
    \A t \in CTasks :
        (ctask[t].pc = "done" /\ ctask[t].result # "row") =>
            /\ ctask[t].result = "null_row"
            /\ t \in OutputRows

(***************************************************************************)
(* C16. Failed extractions never abort the batch: whichever conversations  *)
(* fail, all of them included, process_chat returns, chat_analysis         *)
(* returns, and the run gets to the merge.                                 *)
(***************************************************************************)
C16_BatchNeverAborted ==
    /\ cpc # "raised"
    /\ ~(apc = "raised" /\ acause = "process_address")

(***************************************************************************)
(* C18. When the fetch of tickets or of messages yields no row, the caller *)
(* of the entry point is given an explicit empty-result error, which it    *)
(* can tell from a successful run and from a failed transport, and the     *)
(* cycle writes nothing to the warehouse.                                  *)
(***************************************************************************)
EmptyFetch ==
    /\ ep.entry \in {"tickets", "messages"}
    /\ \E k \in 1..Len(ep.log) :
          /\ ep.log[k].op \in {"fetch_tickets", "fetch_messages"}
          /\ ep.log[k].outcome = "empty"

WarehouseWrites ==
    {k \in 1..Len(ep.log) : /\ ep.log[k].kind = "warehouse"
                            /\ ep.log[k].op # "query_agents"}

C18_EmptyResultSignalled ==
    EmptyFetch =>
        /\ WarehouseWrites = {}
        /\ ep.pc = "raised"
        /\ ep.result \notin {"none", "records"}

(***************************************************************************)
(* C19. A failed warehouse write of a sync run, be it a load job, the      *)
(* MERGE or the DROP and whatever the type of the exception, reaches the   *)
(* caller of the entry point as an exception: the entry point does not     *)
(* return normally after it.                                               *)
(***************************************************************************)
WriteOps == {"load_staging", "merge", "drop", "append_messages",
             "append_users", "append_agents", "append_tags",
             "truncate_load_users"}

FailedWrite ==
    \E k \in 1..Len(ep.log) :
        /\ ep.log[k].op \in WriteOps
        /\ ep.log[k].outcome \in {"fail", "value_error"}

C19_WriteFailurePropagates ==
    FailedWrite => ep.pc = "raised" /\ ep.result = "raised"

(***************************************************************************)
(* C20. A failed run still gets its run log: when the run-time lookup, a   *)
(* query of ticket or message ids or the token query fails, the call of    *)
(* extract_and_load_logs still appends exactly one row, with the counts    *)
(* that could be computed.                                                 *)
(***************************************************************************)
LookupSteps == {"get_runtime", "get_from_run_tickets", "get_existing_tickets",
                "get_from_run_messages", "get_existing_messages",
                "get_total_tokens"}

C20_RunLogAlwaysWritten ==
    (lpc \in {"returned", "raised"} /\ lfailed \in LookupSteps \cup {"none"}) =>
        lrows = lbefore + 1

(***************************************************************************)
(* C21. No merge-upsert run leaves its staging table behind: when a run    *)
(* that wrote the staging table ends, completed or failed, the staging     *)
(* table does not exist.                                                   *)
(***************************************************************************)
RunEnds(r) ==
    /\ mrun[r].pc \in {"staged", "merged"}
    /\ mrun'[r].pc \in {"done", "failed"}

C21_StagingDropped ==
    [][\A r \in MSlots : RunEnds(r) => ~staging'.exists]_vars

(***************************************************************************)
(* C22. generate_schema reads the first value of each field.  A field that *)
(* holds a map with at least one leaf is a RECORD, and a map without a     *)
(* leaf (the empty map, or a map of empty maps) is a STRING; a field that  *)
(* holds a list of scalars is REPEATED and has no nested fields; a field   *)
(* that holds a list with a single map has the nested fields inferred for  *)
(* that map; a field of the force-nullable set is NULLABLE whatever it     *)
(* holds.                                                                  *)
(***************************************************************************)
HasLeaf(v) == Flatten(v.items, <<>>) # {}

IsListOfScalars(v) ==
    /\ v.kind = "list"
    /\ \A i \in DOMAIN v.elems : v.elems[i].kind = "scalar"

IsSingleMapList(v) ==
    /\ v.kind = "list"
    /\ Len(v.elems) = 1
    /\ v.elems[1].kind = "map"

\* The nested fields inferred for a map that a field holds itself.
MapSchema(m) == generate_schema(FrameOfField("a", m))[<<"a">>].fields

ListAndForcedShapes(c) ==
    LET v == schframe[c].val
        f == schema[c]
    IN  /\ (IsListOfScalars(v) /\ c \notin FORCE_NULLABLE) =>
               /\ f.mode = "REPEATED"
               /\ f.field_type # "RECORD"
               /\ f.fields = NoFields
        /\ IsSingleMapList(v) =>
               /\ f.fields = MapSchema(v.elems[1])
               /\ c \notin FORCE_NULLABLE => f.mode = "REPEATED"
        /\ c \in FORCE_NULLABLE => f.mode = "NULLABLE"

C22_SchemaShapes ==
    schpc = "done" =>
        \A c \in DOMAIN schframe :
            LET v == schframe[c].val
                f == schema[c]
            IN  /\ (v.kind = "map" /\ HasLeaf(v)) =>
                       f.field_type = "RECORD" /\ DOMAIN f.fields # {}
                /\ (v.kind = "map" /\ ~HasLeaf(v)) =>
                       f.field_type = "STRING" /\ f.fields = NoFields
                /\ ListAndForcedShapes(c)

\* The statement as given: every field that holds a map is a RECORD.
C22_EveryMapIsRecord ==
    schpc = "done" =>
        \A c \in DOMAIN schframe :
            /\ schframe[c].val.kind = "map" =>
                   schema[c].field_type = "RECORD"
            /\ ListAndForcedShapes(c)

\* custom_fields held a list with a single map of two leaves: the field is
\* a RECORD with the two nested fields, and NULLABLE.
C22_Witness ==
    /\ schpc = "done"
    /\ <<"custom_fields">> \in DOMAIN schframe
    /\ IsSingleMapList(schframe[<<"custom_fields">>].val)
    /\ Cardinality(DOMAIN schema[<<"custom_fields">>].fields) = 2
    /\ schema[<<"custom_fields">>].field_type = "RECORD"
    /\ schema[<<"custom_fields">>].mode = "NULLABLE"

(***************************************************************************)
(* C23. The statistics of the run log: no_tickets_new is the number of     *)
(* ticket ids touched in the run that are not among the ids the tickets    *)
(* table holds, no_tickets_update the number that are, and no_tickets_total *)
(* their sum; likewise for the messages, by ticket id.                     *)
(***************************************************************************)
TouchedIds(table)  == {i \in DOMAIN ltables[table] : ltables[table][i]}
ExistingIds(table) == DOMAIN ltables[table]

CountsAsSpecified(table) ==
    /\ lstats[table].new = Cardinality(TouchedIds(table) \ ExistingIds(table))
    /\ lstats[table].old = Cardinality(TouchedIds(table) \cap ExistingIds(table))
    /\ lstats[table].total = lstats[table].new + lstats[table].old

C23_RunStatistics ==
    /\ "get_existing_tickets" \in ldone => CountsAsSpecified("tickets")
    /\ "get_existing_messages" \in ldone => CountsAsSpecified("messages")

(***************************************************************************)
(* C24. load_agents_cache asks the live agents endpoint only when the      *)
(* warehouse lookup failed or no warehouse is configured; and when the     *)
(* lookup succeeded, the cache holds the id-to-name entries of the         *)
(* warehouse when load_agents_cache returns, whatever a live fetch gave.   *)
(***************************************************************************)
HoldsWarehouseEntries(cache) ==
    \A i \in DOMAIN WarehouseAgents :
        i \in DOMAIN cache /\ cache[i] = WarehouseAgents[i]

C24_LiveOnlyAsFallback ==
    \A t \in MsgTasks :
        /\ ktask[t].live # "not_called" => ktask[t].wh \in {"failed", "none"}
        /\ (ktask[t].wh = "ok" /\ ktask[t].pc \in {"fetching", "done"}) =>
               HoldsWarehouseEntries(ktask[t].after)

(***************************************************************************)
(* C25. The agent cache is fully populated before any message fetch        *)
(* begins: while a call of fetch_ticket_message asks for the messages of   *)
(* a ticket or resolves names from the cache, the cache holds entries and  *)
(* no load_agents_cache is under way on the client.                        *)
(***************************************************************************)
LoadUnderWay == \E t \in MsgTasks : ktask[t].pc = "live"

C25_CachePopulatedFirst ==
    \A t \in MsgTasks :
        ktask[t].pc = "fetching" => DOMAIN kcache # {} /\ ~LoadUnderWay

(***************************************************************************)
(* C26. Message flattening.  A group without nested messages gives exactly *)
(* one row, whose fields of the nested message are null; a group with      *)
(* k >= 1 nested messages gives exactly k rows, one for each nested        *)
(* message in their order, and none for the group itself.  Every row has   *)
(* the id, the owner name, the agent id and the agent name of the ticket   *)
(* of its group, and every user id of a group or of a nested message is in *)
(* unique_userids.                                                         *)
(***************************************************************************)
RowsWithId(gid) ==
    LET OfGroup(row) == row.id = gid
    IN  SelectSeq(frows, OfGroup)

FlattenedAsStated(k, j) ==
    LET group == fdata[k][j]
        rows  == RowsWithId(<<k, j>>)
    IN  /\ group.messages = <<>> =>
               /\ Len(rows) = 1
               /\ rows[1].message_id = None
               /\ rows[1].message_userid = None
        /\ group.messages # <<>> =>
               /\ Len(rows) = Len(group.messages)
               /\ \A l \in DOMAIN rows :
                     /\ rows[l].message_id = group.messages[l].id
                     /\ rows[l].message_userid = group.messages[l].userid
        /\ \A l \in DOMAIN rows :
               /\ rows[l].ticket_id = ftickets[k].id
               /\ rows[l].owner_name = ftickets[k].owner_name
               /\ rows[l].agentid = ftickets[k].agentid
               /\ rows[l].agent_name =
                      DictGet(LoadedCache, ftickets[k].agentid, "Unknown Agent")
               /\ rows[l].userid = group.userid
        /\ group.userid \in fuserids
        /\ \A l \in DOMAIN group.messages :
               group.messages[l].userid \in fuserids

C26_MessageFlattening ==
    /\ \A k \in DOMAIN fdata : \A j \in DOMAIN fdata[k] :
           FlattenedAsStated(k, j)
    /\ \A r \in DOMAIN frows :
           \E k \in DOMAIN fdata : \E j \in DOMAIN fdata[k] :
               frows[r].id = <<k, j>>

\* The second ticket had a group without nested messages and a group with
\* two: three rows came of them.
C26_Witness ==
    /\ fpc = "returned"
    /\ Len(fdata) = 2
    /\ Len(fdata[2]) = 2
    /\ fdata[2][1].messages = <<>>
    /\ Len(fdata[2][2].messages) = 2
    /\ Len(RowsWithId(<<2, 1>>)) = 1
    /\ Len(RowsWithId(<<2, 2>>)) = 2

(***************************************************************************)
(* C27. With enrichment runs executed one at a time, the target table of   *)
(* the conversation analysis never holds two rows of one ticket id, and    *)
(* the row of a ticket id carries the values of the most recent run whose  *)
(* MERGE was carried out with that ticket in its batch; a ticket no MERGE  *)
(* carried has no row.                                                     *)
(***************************************************************************)
RowCarries(k, payload) ==
    IF payload = NoPayload THEN KeyCount(target, k) = 0
    ELSE KeyCount(target, k) = 1 /\ target[<<k, payload>>] = 1

AllRunsEnded == \A r \in MSlots : Finished(mrun[r].pc)

PastAppend(r) == mrun[r].pc \in {"hist", "staged", "merged", "done"}

HistoryHolds(t) == \A row \in Rows : t[row] > 0 => history[row] > 0

HistoryAppend ==
    history' # history =>
        \E r \in MSlots :
            /\ mrun[r].pc = "created"
            /\ mrun'[r].pc = "hist"
            /\ history' = TableAdd(history, mrun[r].batch)

C29_TargetInHistory ==
    /\ [](mkind = "convo" =>
            /\ HistoryHolds(target)
            /\ \A r \in MSlots : PastAppend(r) => HistoryHolds(mrun[r].batch))
    /\ [][HistoryAppend]_vars

\* A run appended its batch and failed afterwards; the history holds a row
\* the target never received.
C29_Witness ==
    /\ mkind = "convo"
    /\ \E r \in MSlots :
          /\ mrun[r].pc = "failed"
          /\ \E row \in Rows :
                mrun[r].batch[row] > 0 /\ history[row] > 0 /\ target[row] = 0
    /\ TableSize(target) > 0

(***************************************************************************)
(* C30. The loader does not serialize merge-upserts.  With runs executed   *)
(* one at a time, every MERGE reads exactly the batch its own run staged   *)
(* and no run finds the staging table missing.  With two runs that         *)
(* overlap, the one staging table lets a MERGE read the rows the other run *)
(* staged, and lets a run find the staging table dropped by the other run. *)
(***************************************************************************)
C30_OwnBatchWhenSequential ==
    ~moverlap =>
        \A r \in MSlots :
            /\ mrun[r].pc \in {"merged", "done"} => mrun[r].src = mrun[r].batch
            /\ mrun[r].why # "no_staging"

\* Two overlapping runs: the MERGE of one read the batch of the other, not
\* its own, and dropped the staging table; the other found no staging table.
C30_Witness ==
    /\ moverlap
    /\ \E r, q \in MSlots :
          /\ mrun[r].pc = "done"
          /\ mrun[r].src = mrun[q].batch
          /\ mrun[r].src # mrun[r].batch
          /\ mrun[q].pc = "failed"
          /\ mrun[q].why = "no_staging"

(***************************************************************************)
(* C28. Between any two consecutive external geocoder calls made through   *)
(* fallback_geocode at least 1.25 seconds elapse: a call of it that comes  *)
(* less than 1.25 s after the previous external request is                 *)
(* delayed by the remainder, so that its request to the primary geocoder   *)
(* starts at least 1.25 s after the previous external request ended, for   *)
(* every sequence of addresses and whatever the outcome (a result, no      *)
(* result, an error) of the previous request.  The request to the          *)
(* secondary geocoder follows the primary one of the same call at once and *)
(* is not held to the gap.                                                 *)
(***************************************************************************)
C28_GapBetweenCalls ==
    \A i \in 1..(Len(tcalls) - 1) :
        tcalls[i + 1].svc = "osm" =>
            tcalls[i + 1].start - tcalls[i].end >= Gap

====
